---- MODULE Spec2Model ----
(***************************************************************************)
(* Model of the XML signing engine of cgisoftware/initializers             *)
(* (package signerxml).  Go strings are TLA+ strings; the regular          *)
(* expressions of the package are operators that compute the same          *)
(* leftmost match the Go regexp package computes.                          *)
(***************************************************************************)
EXTENDS Integers, Sequences, FiniteSets, TLC

\* ------------------------------------------------------------------------
\* Go strings: indexing, strings.Index / Contains / Replace / TrimSpace
\* ------------------------------------------------------------------------

\* the character at position i (1-based), "" outside the string
At(s, i) == IF i >= 1 /\ i <= Len(s) THEN SubSeq(s, i, i) ELSE ""

HasAt(s, p, i) ==
    /\ i >= 1
    /\ i + Len(p) - 1 <= Len(s)
    /\ SubSeq(s, i, i + Len(p) - 1) = p

Greatest(S) == CHOOSE x \in S : \A y \in S : x >= y

\* the least i in lo..hi with P(i), 0 when there is none
RECURSIVE FirstWhere(_, _, _)
FirstWhere(P(_), lo, hi) ==
    IF lo > hi THEN 0
    ELSE IF lo = hi THEN (IF P(lo) THEN lo ELSE 0)
    ELSE LET mid == (lo + hi) \div 2
             l   == FirstWhere(P, lo, mid)
         IN  IF l # 0 THEN l ELSE FirstWhere(P, mid + 1, hi)

\* the greatest i in lo..hi with P(i), 0 when there is none
RECURSIVE LastWhere(_, _, _)
LastWhere(P(_), lo, hi) ==
    IF lo > hi THEN 0
    ELSE IF lo = hi THEN (IF P(lo) THEN lo ELSE 0)
    ELSE LET mid == (lo + hi) \div 2
             r   == LastWhere(P, mid + 1, hi)
         IN  IF r # 0 THEN r ELSE LastWhere(P, lo, mid)

\* first position >= from where p occurs in s, 0 when there is none
IndexFrom(s, p, from) ==
    FirstWhere(LAMBDA i : HasAt(s, p, i), from, Len(s) - Len(p) + 1)

Index(s, p) == IndexFrom(s, p, 1)

Contains(s, p) == Index(s, p) # 0

\* first position >= from whose character is in cs, 0 when there is none
FirstIn(s, cs, from) == FirstWhere(LAMBDA i : At(s, i) \in cs, from, Len(s))

\* first position >= from whose character is not in cs, Len(s)+1 when none
OrElse(i, d) == IF i = 0 THEN d ELSE i

FirstNotIn(s, cs, from) ==
    OrElse(FirstWhere(LAMBDA j : At(s, j) \notin cs, from, Len(s)), Len(s) + 1)

\* last position whose character is not in cs, 0 when there is none
LastNotIn(s, cs) == LastWhere(LAMBDA i : At(s, i) \notin cs, 1, Len(s))

\* strings.Replace(s, old, new, 1)
SpliceAt(s, i, n, new) ==
    IF i = 0 THEN s
    ELSE SubSeq(s, 1, i - 1) \o new \o SubSeq(s, i + n, Len(s))

ReplaceFirst(s, old, new) == SpliceAt(s, Index(s, old), Len(old), new)

\* \s of Go's regexp and the white space of strings.TrimSpace (the
\* documents of the model are ASCII without vertical tabs)
Space == {" ", "\t", "\n", "\r", "\f"}

Quote == {"\"", "'"}

AlphaNum == "abcdefghijklmnopqrstuvwxyzABCDEFGHIJKLMNOPQRSTUVWXYZ0123456789"

AlphaNumChars == {SubSeq(AlphaNum, i, i) : i \in 1..Len(AlphaNum)}

\* [\w:-]
IsNameChar(c) == c \in AlphaNumChars \cup {"_", ":", "-"}

TrimTo(s, a, b) == IF b = 0 THEN "" ELSE SubSeq(s, a, b)

TrimSpace(s) == TrimTo(s, FirstNotIn(s, Space, 1), LastNotIn(s, Space))

\* ------------------------------------------------------------------------
\* canonicalizeXML, cleanXML
\* ------------------------------------------------------------------------

\* regexp.MustCompile(`>\s+<`).ReplaceAllString(s, "><"), from position from
RECURSIVE replaceInterTagSpace(_, _)
\* the match that starts at i (0: there is none) becomes "><"
collapseAt(s, from, i) ==
    IF i = 0 THEN SubSeq(s, from, Len(s))
    ELSE SubSeq(s, from, i) \o "<"
         \o replaceInterTagSpace(s, FirstNotIn(s, Space, i + 1) + 1)

replaceInterTagSpace(s, from) ==
    collapseAt(s, from,
               FirstWhere(LAMBDA k : /\ At(s, k) = ">"
                                     /\ At(s, k + 1) \in Space
                                     /\ At(s, FirstNotIn(s, Space, k + 1)) = "<",
                          from, Len(s) - 2))

canonicalizeXML(xmlContent) == replaceInterTagSpace(xmlContent, 1)

\* strings.Split(s, "\n"), every line through strings.TrimSpace, written
\* to one strings.Builder
RECURSIVE trimLines(_, _)
trimLineTo(s, from, nl) ==
    IF nl = 0 THEN TrimSpace(SubSeq(s, from, Len(s)))
    ELSE TrimSpace(SubSeq(s, from, nl - 1)) \o trimLines(s, nl + 1)

trimLines(s, from) == trimLineTo(s, from, IndexFrom(s, "\n", from))

\* strings.Map(removerChars, s): drops every tab and carriage return
RECURSIVE removerChars(_, _)
dropCharAt(s, from, i) ==
    IF i = 0 THEN SubSeq(s, from, Len(s))
    ELSE SubSeq(s, from, i - 1) \o removerChars(s, i + 1)

removerChars(s, from) == dropCharAt(s, from, FirstIn(s, {"\t", "\r"}, from))

\* the normalization without its last step: tabs and carriage returns stay
cleanXMLKeepingTabs(xmlContent) ==
    trimLines(replaceInterTagSpace(xmlContent, 1), 1)

\* the normalization without its first step: white space between two tags
\* of one line stays
cleanXMLWithoutCollapse(xmlContent) ==
    removerChars(trimLines(xmlContent, 1), 1)

cleanXML(xmlContent) ==
    removerChars(trimLines(replaceInterTagSpace(xmlContent, 1), 1), 1)

\* ------------------------------------------------------------------------
\* removeSignatures, applyTransformations
\* ------------------------------------------------------------------------

\* regexp (?s)<Signature[^>]*>.*?</Signature> replaced by "" everywhere
RECURSIVE removeSignaturesFrom(_, _)
\* .*?</Signature> after the ">" at q: the position of the closing tag
signatureCloseAfter(s, q) ==
    IF q = 0 THEN 0 ELSE IndexFrom(s, "</Signature>", q + 1)

\* <Signature[^>]*> at p: the closing tag of the match, 0 when none
signatureClose(s, p) ==
    IF p = 0 THEN 0 ELSE signatureCloseAfter(s, IndexFrom(s, ">", p + 10))

\* the match from p to the closing tag at r is dropped
removeSignatureAt(s, from, p, r) ==
    IF r = 0 THEN SubSeq(s, from, Len(s))
    ELSE SubSeq(s, from, p - 1) \o removeSignaturesFrom(s, r + 12)

removeSignatureFrom(s, from, p) ==
    removeSignatureAt(s, from, p, signatureClose(s, p))

removeSignaturesFrom(s, from) ==
    removeSignatureFrom(s, from, IndexFrom(s, "<Signature", from))

removeSignatures(xmlContent) == removeSignaturesFrom(xmlContent, 1)

\* the two transforms in the other order
transformationsReversed(elemento) == removeSignatures(canonicalizeXML(elemento))

applyTransformations(elemento) == canonicalizeXML(removeSignatures(elemento))

\* ------------------------------------------------------------------------
\* Errors are their messages; Nil is Go's nil error
\* ------------------------------------------------------------------------

Nil == "<nil>"

\* ------------------------------------------------------------------------
\* prepareXMLForSigning
\* ------------------------------------------------------------------------

\* the matches of (?i)id\s*=\s*["']([^"']+)["'] : the position of the
\* opening quote for a match that starts at k, 0 when none starts there
idQuoteAt(s, q) ==
    IF /\ At(s, q) \in Quote
       /\ At(s, q + 1) \notin (Quote \cup {""})
       /\ FirstIn(s, Quote, q + 2) # 0
    THEN q ELSE 0

idEqualsAt(s, e) ==
    IF At(s, e) = "=" THEN idQuoteAt(s, FirstNotIn(s, Space, e + 1)) ELSE 0

idAttrQuote(s, k) ==
    IF At(s, k) \in {"i", "I"} /\ At(s, k + 1) \in {"d", "D"}
    THEN idEqualsAt(s, FirstNotIn(s, Space, k + 2))
    ELSE 0

\* re.FindStringSubmatch(xmlContent)[1] of that expression, "" when the
\* expression matches nowhere
quotedValue(s, q) ==
    IF q = 0 THEN "" ELSE SubSeq(s, q + 1, FirstIn(s, Quote, q + 2) - 1)

firstIdValue(s) ==
    quotedValue(s, idAttrQuote(s,
        FirstWhere(LAMBDA i : idAttrQuote(s, i) # 0, 1, Len(s))))

\* lines 197-207 with matches[1] = found ("": no match)
adoptFirstID(xmlContent, found) ==
    IF found # ""
    THEN [xml |-> xmlContent, id |-> found, err |-> Nil]
    ELSE [xml |-> "", id |-> "", err |-> "element ID not found in XML"]

prepareXMLForSigning(xmlContent, elementoID) ==
    IF elementoID = ""
    THEN adoptFirstID(xmlContent, firstIdValue(xmlContent))
    ELSE [xml |-> xmlContent, id |-> elementoID, err |-> Nil]

\* ------------------------------------------------------------------------
\* extractElementByID
\* ------------------------------------------------------------------------

\* for the expression <([\w:-]+)[^>]*ATTR=["']?ID["']?[^>]*> and a start
\* position p: the positions k of ATTR= that a match starting at p can use
attrPositionsTo(s, attr, id, p, e) ==
    IF e = 0 THEN {}
    ELSE {k \in (p + 2)..(e - 1) :
            /\ HasAt(s, attr \o "=", k)
            /\ \/ HasAt(s, id, k + Len(attr) + 1)
               \/ /\ At(s, k + Len(attr) + 1) \in Quote
                  /\ HasAt(s, id, k + Len(attr) + 2)}

attrPositions(s, attr, id, p) ==
    IF At(s, p) = "<" /\ IsNameChar(At(s, p + 1))
    THEN attrPositionsTo(s, attr, id, p, IndexFrom(s, ">", p + 1))
    ELSE {}

\* reOpen.FindStringIndex and FindStringSubmatch: the leftmost match
\* [lo, hi] (lo = 0: no match) and its group 1, the longest tag name the
\* rest of the expression still matches after
openTagAt(s, p, kmax, runEnd) ==
    [lo |-> p, hi |-> IndexFrom(s, ">", p + 1),
     tagName |-> SubSeq(s, p + 1, IF runEnd < kmax - 1 THEN runEnd ELSE kmax - 1)]

findOpenTagAt(s, attr, id, p) ==
    IF p = 0 THEN [lo |-> 0, hi |-> 0, tagName |-> ""]
    ELSE openTagAt(s, p, Greatest(attrPositions(s, attr, id, p)),
                   FirstWhere(LAMBDA i : ~IsNameChar(At(s, i + 1)), p, Len(s)))

findOpenTag(s, attr, id) ==
    findOpenTagAt(s, attr, id,
                  FirstWhere(LAMBDA i : attrPositions(s, attr, id, i) # {},
                             1, Len(s)))

\* the first match of xmlns=["']([^"']+)["'] : its group 1, "" when none
namespaceAt(s, k) ==
    IF k = 0 THEN "" ELSE SubSeq(s, k + 7, FirstIn(s, Quote, k + 8) - 1)

firstNamespace(s) ==
    namespaceAt(s, FirstWhere(LAMBDA i : /\ HasAt(s, "xmlns=", i)
                                         /\ At(s, i + 6) \in Quote
                                         /\ At(s, i + 7) \notin (Quote \cup {""})
                                         /\ FirstIn(s, Quote, i + 8) # 0,
                              1, Len(s)))

\* lines 260-263: reFull matched up to the closing tag at close, or nowhere
elementTo(xmlContent, tagName, closeTag, start, close) ==
    IF close = 0
    THEN [val |-> "", tagName |-> tagName,
          err |-> "unable to extract complete content of element '"
                  \o tagName \o "'"]
    ELSE [val |-> SubSeq(xmlContent, start, close + Len(closeTag) - 1),
          tagName |-> tagName, err |-> Nil]

\* lines 257-260: (?s)matchOpen.*?</tagName>, leftmost
elementFrom(xmlContent, tagName, matchOpen, closeTag, start) ==
    elementTo(xmlContent, tagName, closeTag, start,
              IndexFrom(xmlContent, closeTag, start + Len(matchOpen)))

\* lines 243-263 for the match open of reOpen
elementOf(xmlContent, elementoID, open) ==
    IF open.lo = 0
    THEN [val |-> "", tagName |-> "",
          err |-> "element with ID '" \o elementoID \o "' not found"]
    ELSE elementFrom(xmlContent, open.tagName,
                     SubSeq(xmlContent, open.lo, open.hi),
                     "</" \o open.tagName \o ">",
                     Index(xmlContent, SubSeq(xmlContent, open.lo, open.hi)))

\* lines 236-241: the expression with id= is tried when Id= matched nowhere
orLowerCase(xmlContent, elementoID, upper) ==
    IF upper.lo # 0 THEN upper ELSE findOpenTag(xmlContent, "id", elementoID)

\* lines 229-263: the text from the opening tag to the first closing tag
\* of the same name, or an error
locateElement(xmlContent, elementoID) ==
    elementOf(xmlContent, elementoID,
              orLowerCase(xmlContent, elementoID,
                          findOpenTag(xmlContent, "Id", elementoID)))

withNamespace(matches, tagName, namespace) ==
    IF namespace # ""
    THEN ReplaceFirst(matches, tagName,
                      tagName \o " xmlns=\"" \o namespace \o "\"")
    ELSE matches

\* lines 265-272: the document's first default namespace, added after the
\* first occurrence of the tag name when the element has no "xmlns="
injectNamespace(matches, tagName, xmlContent) ==
    IF ~Contains(matches, "xmlns=")
    THEN withNamespace(matches, tagName, firstNamespace(xmlContent))
    ELSE matches

injectFound(xmlContent, found) ==
    IF found.err # Nil THEN [val |-> "", err |-> found.err]
    ELSE [val |-> injectNamespace(found.val, found.tagName, xmlContent),
          err |-> Nil]

extractElementByID(xmlContent, elementoID) ==
    injectFound(xmlContent, locateElement(xmlContent, elementoID))

\* ------------------------------------------------------------------------
\* crypto/sha256, crypto/rsa, encoding/base64.  A digest and a signature
\* are symbolic values that name what was digested or signed (no
\* collisions, no forgery); StdEncoding writes bytes in the alphabet of
\* base64: letters and digits as they are, any other byte as "+" or "/"
\* and a letter
\* ------------------------------------------------------------------------

Specials == "<>=\"'/ \t\n\r\f:#.-_+!?[]"

SpecialCode == [c \in {SubSeq(Specials, i, i) : i \in 1..Len(Specials)} |->
                  "+" \o At(AlphaNum, Index(Specials, c))]

EncodeByte(c) ==
    IF c \in AlphaNumChars THEN c
    ELSE IF c \in DOMAIN SpecialCode THEN SpecialCode[c]
    ELSE "/" \o "x"

\* base64.StdEncoding.EncodeToString
RECURSIVE StdEncoding(_)
StdEncoding(b) ==
    IF Len(b) = 0 THEN ""
    ELSE IF Len(b) = 1 THEN EncodeByte(b)
    ELSE LET h == Len(b) \div 2
         IN  StdEncoding(SubSeq(b, 1, h)) \o StdEncoding(SubSeq(b, h + 1, Len(b)))

\* sha256.New(); Write; Sum(nil)
Sha256(data) == "sha256:" \o data

\* a probabilistic scheme in its place: the signature depends on what the
\* random source yields
SignRandomized(random, rsaKey, hashed) ==
    "pss:" \o rsaKey.id \o ":" \o (IF random = 0 THEN "r" ELSE "s") \o ":" \o hashed

\* rsa.SignPKCS1v15(rand.Reader, key, crypto.SHA256, hashed): the random
\* source only blinds the private-key operation, the signature is the
\* deterministic PKCS#1 v1.5 signature of hashed under the key
SignPKCS1v15(random, rsaKey, hashed) == "pkcs1v15:" \o rsaKey.id \o ":" \o hashed

\* rsa.VerifyPKCS1v15(pub, crypto.SHA256, hashed, sig) = nil
VerifyPKCS1v15(pub, hashed, sig) == sig = "pkcs1v15:" \o pub \o ":" \o hashed

\* ------------------------------------------------------------------------
\* Certificate archives.  pkcs12.ToPEM and the x509 parsers are external:
\* an archive is a named byte string, and the catalogue below says what
\* the library decodes it to
\* ------------------------------------------------------------------------

NilKey == [alg |-> "nil", id |-> ""]

NilCert == [Raw |-> "", PublicKey |-> "", NotBefore |-> 0, NotAfter |-> 0]

\* x509.ParseCertificate: the certificate of a DER block, NilCert for
\* bytes that do not parse
ParseCertificate(bytes) ==
    CASE bytes = "der:leaf" ->
            [Raw |-> bytes, PublicKey |-> "k1",
             NotBefore |-> 1, NotAfter |-> 1]
      [] bytes = "der:ca" ->
            [Raw |-> bytes, PublicKey |-> "kca",
             NotBefore |-> 1, NotAfter |-> 1]
      [] bytes = "der:ecleaf" ->
            [Raw |-> bytes, PublicKey |-> "k3",
             NotBefore |-> 1, NotAfter |-> 1]
      [] OTHER -> NilCert

\* x509.ParsePKCS1PrivateKey: an RSA key or NilKey
ParsePKCS1PrivateKey(bytes) ==
    CASE bytes = "pkcs1:k1" -> [alg |-> "rsa", id |-> "k1"]
      [] bytes = "pkcs1:k2" -> [alg |-> "rsa", id |-> "k2"]
      [] OTHER -> NilKey

\* x509.ParsePKCS8PrivateKey: a key of any algorithm or NilKey
ParsePKCS8PrivateKey(bytes) ==
    CASE bytes = "pkcs8:k1" -> [alg |-> "rsa", id |-> "k1"]
      [] bytes = "pkcs8:k3" -> [alg |-> "ecdsa", id |-> "k3"]
      [] OTHER -> NilKey

\* the passphrase an archive was made with: pfx-blank with one blank
PassphraseOf(file) == IF file = "pfx-blank" THEN " " ELSE "secret"

\* pkcs12.ToPEM(file, password): the PEM blocks of the archive in the
\* order of its bags, or an error
ToPEM(file, password) ==
    LET blocks ==
          CASE file = "pfx-leaf" ->
                 << [Type |-> "PRIVATE KEY", Bytes |-> "pkcs8:k1"],
                    [Type |-> "CERTIFICATE", Bytes |-> "der:leaf"] >>
            [] file = "pfx-chain" ->
                 << [Type |-> "CERTIFICATE", Bytes |-> "der:ca"],
                    [Type |-> "CERTIFICATE", Bytes |-> "der:leaf"],
                    [Type |-> "RSA PRIVATE KEY", Bytes |-> "pkcs1:k1"] >>
            [] file = "pfx-twokeys" ->
                 << [Type |-> "CERTIFICATE", Bytes |-> "der:leaf"],
                    [Type |-> "PRIVATE KEY", Bytes |-> "pkcs1:k1"],
                    [Type |-> "PRIVATE KEY", Bytes |-> "pkcs1:k2"] >>
            [] file = "pfx-ec" ->
                 << [Type |-> "CERTIFICATE", Bytes |-> "der:ecleaf"],
                    [Type |-> "PRIVATE KEY", Bytes |-> "pkcs8:k3"] >>
            [] file = "pfx-nokey" ->
                 << [Type |-> "CERTIFICATE", Bytes |-> "der:leaf"] >>
            [] file = "pfx-blank" ->
                 << [Type |-> "PRIVATE KEY", Bytes |-> "pkcs8:k1"],
                    [Type |-> "CERTIFICATE", Bytes |-> "der:leaf"] >>
            [] file = "pfx-nocert" ->
                 << [Type |-> "CERTIFICATE", Bytes |-> "der:broken"],
                    [Type |-> "PRIVATE KEY", Bytes |-> "pkcs8:k1"] >>
            [] OTHER -> << >>
    IN  IF blocks = << >> \/ password # PassphraseOf(file)
        THEN [blocks |-> << >>, err |-> "pkcs12: decryption password incorrect"]
        ELSE [blocks |-> blocks, err |-> Nil]

\* the loop of extractPfxCertificate over blocks[i..]
RECURSIVE rangeBlocks(_, _, _, _)
rangeBlocks(blocks, i, privateKey, certificate) ==
    IF i > Len(blocks) THEN [privateKey |-> privateKey, certificate |-> certificate]
    ELSE LET block == blocks[i]
         IN  IF block.Type = "CERTIFICATE"
             THEN LET c == ParseCertificate(block.Bytes)
                  IN  IF c = NilCert
                      THEN rangeBlocks(blocks, i + 1, privateKey, certificate)
                      ELSE IF certificate = NilCert
                      THEN rangeBlocks(blocks, i + 1, privateKey, c)
                      ELSE rangeBlocks(blocks, i + 1, privateKey, certificate)
             ELSE IF block.Type = "PRIVATE KEY" \/ block.Type = "RSA PRIVATE KEY"
             THEN IF ParsePKCS1PrivateKey(block.Bytes) # NilKey
                  THEN rangeBlocks(blocks, i + 1,
                                   ParsePKCS1PrivateKey(block.Bytes), certificate)
                  ELSE IF ParsePKCS8PrivateKey(block.Bytes) # NilKey
                  THEN rangeBlocks(blocks, i + 1,
                                   ParsePKCS8PrivateKey(block.Bytes), certificate)
                  ELSE rangeBlocks(blocks, i + 1, privateKey, certificate)
             ELSE rangeBlocks(blocks, i + 1, privateKey, certificate)

\* lines 171-179
keyAndCertificate(r) ==
    IF r.privateKey = NilKey
    THEN [privateKey |-> NilKey, certificate |-> NilCert,
          err |-> "private key not found in PFX file"]
    ELSE IF r.certificate = NilCert
    THEN [privateKey |-> NilKey, certificate |-> NilCert,
          err |-> "certificate not found in PFX file"]
    ELSE [privateKey |-> r.privateKey, certificate |-> r.certificate,
          err |-> Nil]

\* lines 144-179 for the outcome pem of pkcs12.ToPEM
fromPEM(pem) ==
    IF pem.err # Nil
    THEN [privateKey |-> NilKey, certificate |-> NilCert,
          err |-> "error decoding PFX (ToPEM): " \o pem.err]
    ELSE keyAndCertificate(rangeBlocks(pem.blocks, 1, NilKey, NilCert))

extractPfxCertificate(cert) == fromPEM(ToPEM(cert.File, cert.Password))

\* the check of NotBefore alone
validateNotBeforeOnly(cert, now) ==
    IF now < cert.NotBefore THEN "certificate is not yet valid" ELSE Nil

validateCertificate(cert, now) ==
    IF now < cert.NotBefore THEN "certificate is not yet valid"
    ELSE IF now > cert.NotAfter THEN "certificate expired"
    ELSE Nil

\* the checks in another order: the passphrase before the certificate file
validateInputPasswordFirst(dados) ==
    IF TrimSpace(dados.XMLContent) = "" THEN "XML content cannot be empty"
    ELSE IF TrimSpace(dados.Certificate.Password) = ""
    THEN "certificate password cannot be empty"
    ELSE IF Len(dados.Certificate.File) = 0 THEN "certificate file cannot be empty"
    ELSE Nil

validateInput(dados) ==
    IF TrimSpace(dados.XMLContent) = "" THEN "XML content cannot be empty"
    ELSE IF Len(dados.Certificate.File) = 0 THEN "certificate file cannot be empty"
    ELSE IF TrimSpace(dados.Certificate.Password) = ""
    THEN "certificate password cannot be empty"
    ELSE Nil

\* ------------------------------------------------------------------------
\* calculateElementHash, createSignedInfo, signSignedInfo,
\* createElementSignature, insertSignatureInXML
\* ------------------------------------------------------------------------

\* lines 214-225 for what extractElementByID returned
hashOf(elementoID, extracted) ==
    IF extracted.err # Nil
    THEN [val |-> "",
          err |-> "error extracting element " \o elementoID \o ": "
                  \o extracted.err]
    ELSE [val |-> StdEncoding(Sha256(applyTransformations(extracted.val))),
          err |-> Nil]

calculateElementHash(xmlContent, elementoID) ==
    hashOf(elementoID, extractElementByID(xmlContent, elementoID))

signedInfoPart1 ==
    "<SignedInfo xmlns=\"http://www.w3.org/2000/09/xmldsig#\">\n"
    \o "\t\t<CanonicalizationMethod Algorithm=\"http://www.w3.org/TR/2001/REC-xml-c14n-20010315\"></CanonicalizationMethod>\n"
    \o "\t\t<SignatureMethod Algorithm=\"http://www.w3.org/2001/04/xmldsig-more#rsa-sha256\"></SignatureMethod>\n"
    \o "\t\t<Reference URI=\"#"

signedInfoPart2 ==
    "\">\n"
    \o "\t\t\t<Transforms>\n"
    \o "\t\t\t\t<Transform Algorithm=\"http://www.w3.org/2000/09/xmldsig#enveloped-signature\"></Transform>\n"
    \o "\t\t\t\t<Transform Algorithm=\"http://www.w3.org/TR/2001/REC-xml-c14n-20010315\"></Transform>\n"
    \o "\t\t\t</Transforms>\n"
    \o "\t\t\t<DigestMethod Algorithm=\"http://www.w3.org/2001/04/xmlenc#sha256\"></DigestMethod>\n"
    \o "\t\t\t<DigestValue>"

signedInfoPart3 ==
    "</DigestValue>\n"
    \o "\t\t</Reference>\n"
    \o "\t</SignedInfo>"

createSignedInfo(digestValue, referenceURI) ==
    signedInfoPart1 \o referenceURI \o signedInfoPart2 \o digestValue
        \o signedInfoPart3

signSignedInfo(signedInfo, privateKey, random) ==
    IF privateKey.alg # "rsa"
    THEN [val |-> "", err |-> "private key must be RSA"]
    ELSE [val |-> StdEncoding(SignPKCS1v15(random, privateKey, Sha256(signedInfo))),
          err |-> Nil]

signaturePart1 ==
    "<Signature xmlns=\"http://www.w3.org/2000/09/xmldsig#\">\n"
    \o "\t\t"

signaturePart2 ==
    "\n"
    \o "\t\t<SignatureValue>"

signaturePart3 ==
    "</SignatureValue>\n"
    \o "\t\t<KeyInfo>\n"
    \o "\t\t\t<X509Data>\n"
    \o "\t\t\t\t<X509Certificate>"

signaturePart4 ==
    "</X509Certificate>\n"
    \o "\t\t\t</X509Data>\n"
    \o "\t\t</KeyInfo>\n"
    \o "\t</Signature>"

createElementSignature(signedInfo, signatureValue, cert) ==
    signaturePart1 \o signedInfo \o signaturePart2 \o signatureValue
        \o signaturePart3 \o StdEncoding(cert.Raw) \o signaturePart4

\* \s*$ after the ">" at e
closesAtEnd(s, e) == e # 0 /\ FirstNotIn(s, Space, e + 1) = Len(s) + 1

closingNameAt(s, p) ==
    IF p = 0 THEN "" ELSE SubSeq(s, p + 2, IndexFrom(s, ">", p + 3) - 1)

\* the leftmost match of </([^>]+)>\s*$ : its group 1, "" when none
lastClosingTag(s) ==
    closingNameAt(s, FirstWhere(LAMBDA i :
                                  /\ HasAt(s, "</", i)
                                  /\ At(s, i + 2) \notin {">", ""}
                                  /\ closesAtEnd(s, IndexFrom(s, ">", i + 3)),
                                1, Len(s)))

\* lines 364-368
insertBefore(xmlContent, signature, closeTag) ==
    [val |-> ReplaceFirst(xmlContent, closeTag, signature \o "\n" \o closeTag),
     err |-> Nil]

\* lines 355-362 with matches[1] = found ("": no match)
insertBeforeLast(xmlContent, signature, found) ==
    IF found = ""
    THEN [val |-> "",
          err |-> "unable to determine where to insert the signature"]
    ELSE insertBefore(xmlContent, signature, "</" \o found \o ">")

insertSignatureInXML(xmlContent, signature, tagAssinatura) ==
    IF tagAssinatura = ""
    THEN insertBeforeLast(xmlContent, signature, lastClosingTag(xmlContent))
    ELSE insertBefore(xmlContent, signature, "</" \o tagAssinatura \o ">")

\* ------------------------------------------------------------------------
\* The callers' documents.  A document is the serialization of a tree of
\* elements and text, so that what "the element with Id I" is does not
\* depend on the expressions of the package
\* ------------------------------------------------------------------------

Text(t) == [tag |-> "", attrs |-> << >>, kids |-> << >>, text |-> t]

Elem(tag, attrs, kids) == [tag |-> tag, attrs |-> attrs, kids |-> kids, text |-> ""]

Attr(name, value) == [name |-> name, value |-> value]

RECURSIVE SerializeAttrs(_)
SerializeAttrs(attrs) ==
    IF attrs = << >> THEN ""
    ELSE " " \o Head(attrs).name \o "=\"" \o Head(attrs).value \o "\""
         \o SerializeAttrs(Tail(attrs))

RECURSIVE Serialize(_)
RECURSIVE SerializeAll(_)
Serialize(n) ==
    IF n.tag = "" THEN n.text
    ELSE "<" \o n.tag \o SerializeAttrs(n.attrs) \o ">" \o SerializeAll(n.kids)
         \o "</" \o n.tag \o ">"

SerializeAll(kids) ==
    IF kids = << >> THEN "" ELSE Serialize(Head(kids)) \o SerializeAll(Tail(kids))

DsigNamespace == "http://www.w3.org/2000/09/xmldsig#"

\* a comment, outside the tree of elements
Comment(c) == Text("<!--" \o c \o "-->")

\* markup that is not a tree: an opening tag left without its closing tag
Raw(t) == Text(t)

\* each document is the sequence of its top-level nodes
Documents ==
    << \* the example of the specification
       << Elem("Doc", << >>,
               << Elem("Body", << Attr("Id", "x1") >>, << Text("V") >>) >>) >>,
       \* the same document indented, with a tab inside a text
       << Elem("Doc", << >>,
               << Text("\n\t"),
                  Elem("Body", << Attr("Id", "x1") >>,
                       << Text("\n\t\t"), Elem("V", << >>, << Text("a\tb") >>),
                          Text("\n\t") >>),
                  Text("\n") >>) >>,
       \* a default namespace on the root only
       << Elem("Doc", << Attr("xmlns", "urn:n") >>,
               << Elem("Body", << Attr("Id", "x1") >>, << Text("V") >>) >>) >>,
       \* an Id that starts with another element's Id
       << Elem("Doc", << >>,
               << Elem("A", << Attr("Id", "x10") >>, << Text("p") >>),
                  Elem("B", << Attr("Id", "x1") >>, << Text("q") >>) >>) >>,
       \* id in lower case first, Id later
       << Elem("Doc", << >>,
               << Elem("A", << Attr("id", "x1") >>, << Text("p") >>),
                  Elem("B", << Attr("Id", "x10") >>, << Text("q") >>) >>) >>,
       \* the signed element has the name of the root
       << Elem("Doc", << >>,
               << Elem("Doc", << Attr("Id", "x1") >>, << Text("V") >>) >>) >>,
       \* no Id at all
       << Elem("Doc", << >>, << Elem("Body", << >>, << Text("V") >>) >>) >>,
       \* another attribute whose name ends in Id
       << Elem("Doc", << >>,
               << Elem("A", << Attr("RefId", "x1") >>, << Text("p") >>),
                  Elem("B", << Attr("Id", "x1") >>, << Text("q") >>) >>) >>,
       \* already signed inside the element
       << Elem("Doc", << >>,
               << Elem("Body", << Attr("Id", "x1") >>,
                       << Text("V"),
                          Elem("Signature", << Attr("xmlns", DsigNamespace) >>,
                               << Text("s") >>) >>) >>) >>,
       \* the closing text of the root inside CDATA
       << Elem("Doc", << >>,
               << Elem("Body", << Attr("Id", "x1") >>,
                       << Text("<![CDATA[</Doc>]]>") >>) >>) >>,
       \* an attribute of the root whose name ends in id
       << Elem("Doc", << Attr("valid", "no") >>,
               << Elem("Body", << Attr("Id", "x1") >>, << Text("V") >>) >>) >>,
       \* no content
       << Text("") >>,
       << Text(" \n\t") >>,
       \* a comment after the root element
       << Elem("Doc", << >>,
               << Elem("Body", << Attr("Id", "x1") >>, << Text("V") >>) >>),
          Comment("e") >>,
       \* no Id and no id, and an attribute whose name ends in id
       << Elem("Doc", << Attr("valid", "x1") >>,
               << Elem("Body", << >>, << Text("V") >>) >>) >>,
       \* already signed inside the element, a default namespace on the root
       << Elem("Doc", << Attr("xmlns", "urn:n") >>,
               << Elem("Body", << Attr("Id", "x1") >>,
                       << Text("V"),
                          Elem("Signature", << Attr("xmlns", DsigNamespace) >>,
                               << Text("s") >>) >>) >>) >>,
       \* already signed, the Signature after the element
       << Elem("Doc", << >>,
               << Elem("Body", << Attr("Id", "x1") >>, << Text("V") >>),
                  Elem("Signature", << Attr("xmlns", DsigNamespace) >>,
                       << Text("s") >>) >>) >>,
       \* the element with the Id is never closed
       << Elem("Doc", << >>, << Raw("<Body Id=\"x1\">V") >>) >> >>

\* nodes without the Signature elements
RECURSIVE DropSignatures(_)
DropSignatures(kids) ==
    IF kids = << >> THEN << >>
    ELSE IF Head(kids).tag = "Signature" THEN DropSignatures(Tail(kids))
    ELSE IF Head(kids).tag = "" THEN << Head(kids) >> \o DropSignatures(Tail(kids))
    ELSE << [Head(kids) EXCEPT !.kids = DropSignatures(Head(kids).kids)] >>
         \o DropSignatures(Tail(kids))

\* the XML content string a caller passes for document d
XMLOf(d) == SerializeAll(Documents[d])

ElementIDs == {"", "x1"}

TagSignatures == {"", "Doc", "Root"}

\* the types.A1 values callers pass
Certificates ==
    { [File |-> f, Password |-> "secret"] :
        f \in {"", "garbage", "pfx-leaf", "pfx-chain", "pfx-twokeys",
               "pfx-ec", "pfx-nokey", "pfx-nocert"} }
    \cup { [File |-> "pfx-leaf", Password |-> w] : w \in {" ", "wrong"} }
    \cup { [File |-> "", Password |-> " "] }

\* the clock runs from 0 to MaxTime
MaxTime == 2

\* rand.Reader yields one of 0..MaxRandom
MaxRandom == 1

\* ------------------------------------------------------------------------
\* SignXML, one action per stage
\* ------------------------------------------------------------------------

VARIABLES
    pc,            \* where the call is: "idle", a stage, or "returned"
    doc,           \* the index in Documents of the caller's document
    dados,         \* the types.Signature of the call, XMLContent after line 50
    clock,         \* the time of the last time.Now()
    now,           \* what validateCertificate read at line 184 (-1: not read)
    resultado,     \* the types.SignatureResult
    err,           \* the error SignXML returns
    privateKey, cert, xmlPreparado, elementoID, hash, signedInfo,
    assinatura, signature,     \* the locals of SignXML
    elemento,      \* what extractElementByID returned to line 213
    stages,        \* the stages this call has run, in order
    failed,        \* the stage that returned an error ("": none)
    http,          \* the request the authentication middleware is serving
    bundle,        \* what a certificate entry point was given and returned
    norm,          \* a text and what the normalizations made of it
    uow,           \* the mutex-guarded UnitOfWork, its database and its callers
    pool,          \* the database behind the sqlxDB wrapper and its caller
    globals,       \* globalDB, globalUoW, uoOnce and the callers of GetUoW
    prev,          \* the outcome of the previous call when this call repeats it
    other          \* the locals of a SignXML call that runs concurrently

vars == << pc, doc, dados, clock, now, resultado, err, privateKey, cert,
           xmlPreparado, elementoID, hash, signedInfo, assinatura, signature,
           elemento, stages, failed, prev, other, http, norm, bundle,
           uow, pool, globals >>

\* the variables of SignXML and of its callers
callVars == << pc, doc, dados, now, resultado, err, privateKey, cert,
               xmlPreparado, elementoID, hash, signedInfo, assinatura, signature,
               elemento, stages, failed, prev, other >>

signer == << callVars, clock >>

\* the variables SignXML does not touch
aside == << http, norm, bundle, uow, pool, globals >>

\* the variables the middleware does not touch
besidesHttp == << signer, norm, bundle, uow, pool, globals >>

\* the variables the normalizations do not touch
besidesNorm == << signer, http, bundle, uow, pool, globals >>

\* the variables the certificate entry points do not touch, the clock apart
besidesBundle == << callVars, http, norm, uow, pool, globals >>

\* the variables of the signer, the middleware and their checks
signing == << signer, http, norm, bundle >>

\* the variables the mutex-guarded UnitOfWork does not touch
besidesUow == << signing, pool, globals >>

\* the variables the sqlxDB wrapper does not touch
besidesPool == << signing, uow, globals >>

\* the variables GetUoW and SetGlobalDB do not touch
besidesGlobals == << signing, uow, pool >>

NoDados == [XMLContent |-> "", Certificate |-> [File |-> "", Password |-> ""],
            ElementID |-> "", TagSignature |-> ""]

NoResult == [Date |-> 0, Success |-> FALSE, XMLContent |-> "", XMLSigned |-> "",
             Error |-> Nil]

NoPrev == [called |-> FALSE, doc |-> 0, Success |-> FALSE, XMLSigned |-> "",
           hash |-> "", assinatura |-> ""]

\* the locals of a call that has not started
\* no entry point has been called
NoBundle == [entry |-> "", path |-> "", File |-> "", Password |-> "", at |-> -1,
             A1 |-> [File |-> "", Password |-> ""], info |-> NilCert, err |-> Nil]

\* the goroutines that share the UnitOfWork
Goroutines == {1, 2}

\* how many calls a goroutine makes
MaxCalls == 2

\* a goroutine that has called nothing: the call it is in and where, the
\* transaction its Begin opened, what fn returned, what the call returned,
\* the uow.tx Exec read at its condition, and where its statement ran
\* (-1: nowhere, 0: on the database, n: in transaction n)
NoCall == [pc |-> "idle", call |-> "", calls |-> 0, began |-> 0, fnErr |-> Nil,
           ret |-> Nil, seen |-> 0, ran |-> -1]

\* NewUnitOfWork(db): no transaction (0), no repository; the database has
\* opened no transaction
NoUow == [tx |-> 0, repositories |-> {}, txs |-> << >>,
          g |-> [i \in Goroutines |-> NoCall]]

\* the caller of the context-carrying WithTransaction has called nothing
\* and the database behind the wrapper has opened no transaction: tx is the
\* transaction of the call (0: none), stmts the statements issued through
\* the wrapper
NoPool == [pc |-> "idle", calls |-> 0, tx |-> 0, txs |-> << >>, stmts |-> << >>,
           fnErr |-> Nil, ret |-> Nil]

\* the package variables of uow before any call: globalDB and globalUoW are
\* nil (0), uoOnce has run nothing; uows are the UnitOfWorks New has made,
\* each the database it is bound to; a goroutine's after tells that its
\* call started after a SetGlobalDB with a database, ret what it returned
NoGlobals == [globalDB |-> 0, globalUoW |-> 0, uoOnce |-> "new", uows |-> << >>,
              sets |-> 0, wasSet |-> FALSE,
              g |-> [i \in Goroutines |->
                       [pc |-> "idle", calls |-> 0, after |-> FALSE, ret |-> 0]]]

\* no text has been given
NoText == [in |-> "", ops |-> << >>, prev |-> "", out |-> ""]

\* no request is being served
NoRequest == [pc |-> "idle", mw |-> "", cryptService |-> FALSE, Authorization |-> "",
              cookie |-> << >>, now |-> 0, status |-> 0, invoked |-> FALSE,
              ctx |-> << >>]

NoOther == [pc |-> "idle", doc |-> 0, dados |-> NoDados, now |-> -1, resultado |-> NoResult,
            err |-> Nil, privateKey |-> NilKey, cert |-> NilCert,
            xmlPreparado |-> "", elementoID |-> "", hash |-> "",
            signedInfo |-> "", assinatura |-> "", signature |-> "",
            failed |-> ""]

Init ==
    /\ pc = "idle"
    /\ doc = 1
    /\ dados = NoDados
    /\ clock = 0
    /\ now = -1
    /\ resultado = NoResult
    /\ err = Nil
    /\ privateKey = NilKey
    /\ cert = NilCert
    /\ xmlPreparado = ""
    /\ elementoID = ""
    /\ hash = ""
    /\ signedInfo = ""
    /\ assinatura = ""
    /\ signature = ""
    /\ elemento = ""
    /\ stages = << >>
    /\ failed = ""
    /\ prev = NoPrev
    /\ other = NoOther
    /\ http = NoRequest
    /\ norm = NoText
    /\ bundle = NoBundle
    /\ uow = NoUow
    /\ pool = NoPool
    /\ globals = NoGlobals

\* lines 50-56: the content is normalized and the result is prepared
Enter(d, certificate, id, tag) ==
    /\ doc' = d
    /\ dados' = [XMLContent |-> cleanXML(XMLOf(d)), Certificate |-> certificate,
                 ElementID |-> id, TagSignature |-> tag]
    /\ resultado' = [Date |-> clock, Success |-> FALSE,
                     XMLContent |-> cleanXML(XMLOf(d)),
                     XMLSigned |-> "", Error |-> Nil]
    /\ clock' = clock
    /\ now' = -1
    /\ err' = Nil
    /\ privateKey' = NilKey
    /\ cert' = NilCert
    /\ xmlPreparado' = ""
    /\ elementoID' = ""
    /\ hash' = ""
    /\ signedInfo' = ""
    /\ assinatura' = ""
    /\ signature' = ""
    /\ elemento' = ""
    /\ stages' = << >>
    /\ failed' = ""
    /\ pc' = "validateInput"
    /\ UNCHANGED << aside, other >>

\* a caller calls SignXML
Call ==
    /\ pc = "idle"
    /\ \E d \in 1..Len(Documents), c \in Certificates,
          id \in ElementIDs, tag \in TagSignatures :
          Enter(d, c, id, tag)
    /\ prev' = NoPrev

\* a caller calls SignXML again with the inputs of the call that returned
Repeat ==
    /\ pc = "returned"
    /\ ~prev.called
    /\ Enter(doc, dados.Certificate, dados.ElementID, dados.TagSignature)
    /\ prev' = [called |-> TRUE, doc |-> doc, Success |-> resultado.Success,
                XMLSigned |-> resultado.XMLSigned, hash |-> hash,
                assinatura |-> assinatura]

\* a caller signs again, with the same certificate, id and tag, a document
\* that is the document of the call that returned plus Signature blocks
Resign ==
    /\ pc = "returned"
    /\ ~prev.called
    /\ \E d \in 1..Len(Documents) :
          /\ d # doc
          /\ DropSignatures(Documents[d]) = Documents[doc]
          /\ Enter(d, dados.Certificate, dados.ElementID, dados.TagSignature)
    /\ prev' = [called |-> TRUE, doc |-> doc, Success |-> resultado.Success,
                XMLSigned |-> resultado.XMLSigned, hash |-> hash,
                assinatura |-> assinatura]

\* a return that leaves resultado.Error unset
ReturnWithoutError(stage, wrapped, e) ==
    /\ UNCHANGED resultado
    /\ err' = e
    /\ failed' = stage
    /\ pc' = "returned"

\* resultado.Error = wrapped; return resultado, e
Return(stage, wrapped, e) ==
    /\ resultado' = [resultado EXCEPT !.Error = wrapped]
    /\ err' = e
    /\ failed' = stage
    /\ pc' = "returned"

\* the stage returned no error: the next stage
Continue(stage) ==
    /\ pc' = stage
    /\ UNCHANGED << resultado, err, failed >>

\* lines 58-62
InputValidated(e) ==
    IF e # Nil THEN Return("validateInput", e, e)
    ELSE Continue("extractPfxCertificate")

ValidateInput ==
    /\ pc = "validateInput"
    /\ stages' = Append(stages, "validateInput")
    /\ InputValidated(validateInput(dados))
    /\ UNCHANGED << aside, other, doc, dados, clock, now, privateKey, cert, xmlPreparado,
                    elementoID, hash, signedInfo, assinatura, signature,
                    elemento, prev >>

\* lines 64-69
PfxExtracted(r) ==
    IF r.err # Nil
    THEN /\ Return("extractPfxCertificate",
                   "Error extracting PFX certificate: " \o r.err, r.err)
         /\ UNCHANGED << privateKey, cert >>
    ELSE /\ privateKey' = r.privateKey
         /\ cert' = r.certificate
         /\ Continue("validateCertificate")

ExtractPfxCertificate ==
    /\ pc = "extractPfxCertificate"
    /\ stages' = Append(stages, "extractPfxCertificate")
    /\ PfxExtracted(extractPfxCertificate(dados.Certificate))
    /\ UNCHANGED << aside, other, doc, dados, clock, now, xmlPreparado, elementoID, hash,
                    signedInfo, assinatura, signature, elemento, prev >>

\* the error of validateCertificate is dropped and the call goes on
CertificateNotChecked(e) == Continue("prepareXMLForSigning")

\* lines 71-76
CertificateValidated(e) ==
    IF e # Nil
    THEN Return("validateCertificate", "Invalid certificate: " \o e, e)
    ELSE Continue("prepareXMLForSigning")

ValidateCertificate ==
    /\ pc = "validateCertificate"
    /\ stages' = Append(stages, "validateCertificate")
    /\ \E t \in clock..MaxTime :
          /\ clock' = t
          /\ now' = t
          /\ CertificateValidated(validateCertificate(cert, t))
    /\ UNCHANGED << aside, other, doc, dados, privateKey, cert, xmlPreparado, elementoID,
                    hash, signedInfo, assinatura, signature, elemento, prev >>

\* the adopted id kept in a variable of the package, which the other call
\* writes too
XMLPreparedShared(r) ==
    IF r.err # Nil
    THEN /\ Return("prepareXMLForSigning",
                   "Error preparing XML: " \o r.err, r.err)
         /\ UNCHANGED << xmlPreparado, elementoID >>
    ELSE /\ xmlPreparado' = r.xml
         /\ elementoID' = (IF other.elementoID # "" THEN other.elementoID
                           ELSE r.id)
         /\ Continue("calculateElementHash")

\* lines 78-83
XMLPrepared(r) ==
    IF r.err # Nil
    THEN /\ Return("prepareXMLForSigning",
                   "Error preparing XML: " \o r.err, r.err)
         /\ UNCHANGED << xmlPreparado, elementoID >>
    ELSE /\ xmlPreparado' = r.xml
         /\ elementoID' = r.id
         /\ Continue("calculateElementHash")

PrepareXMLForSigning ==
    /\ pc = "prepareXMLForSigning"
    /\ stages' = Append(stages, "prepareXMLForSigning")
    /\ XMLPrepared(prepareXMLForSigning(dados.XMLContent, dados.ElementID))
    /\ UNCHANGED << aside, other, doc, dados, clock, now, privateKey, cert, hash, signedInfo,
                    assinatura, signature, elemento, prev >>

\* lines 85-90
HashCalculated(r) ==
    IF r.err # Nil
    THEN /\ Return("calculateElementHash",
                   "Error calculating hash: " \o r.err, r.err)
         /\ UNCHANGED hash
    ELSE /\ hash' = r.val
         /\ Continue("createSignedInfo")

CalculateElementHash ==
    /\ pc = "calculateElementHash"
    /\ stages' = Append(stages, "calculateElementHash")
    /\ elemento' = extractElementByID(xmlPreparado, elementoID).val
    /\ HashCalculated(calculateElementHash(xmlPreparado, elementoID))
    /\ UNCHANGED << aside, other, doc, dados, clock, now, privateKey, cert, xmlPreparado,
                    elementoID, signedInfo, assinatura, signature, prev >>

\* lines 92-97; createSignedInfo returns no error
CreateSignedInfo ==
    /\ pc = "createSignedInfo"
    /\ stages' = Append(stages, "createSignedInfo")
    /\ signedInfo' = createSignedInfo(hash, elementoID)
    /\ pc' = "canonicalizeXML"
    /\ UNCHANGED << aside, other, doc, dados, clock, now, resultado, err, privateKey, cert,
                    xmlPreparado, elementoID, hash, assinatura, signature,
                    elemento, failed, prev >>

\* lines 99-101
CanonicalizeSignedInfo ==
    /\ pc = "canonicalizeXML"
    /\ stages' = Append(stages, "canonicalizeXML")
    /\ signedInfo' = canonicalizeXML(signedInfo)
    /\ pc' = "signSignedInfo"
    /\ UNCHANGED << aside, other, doc, dados, clock, now, resultado, err, privateKey, cert,
                    xmlPreparado, elementoID, hash, assinatura, signature,
                    elemento, failed, prev >>

\* lines 103-108
Signed(r) ==
    IF r.err # Nil
    THEN /\ Return("signSignedInfo", "Error signing: " \o r.err, r.err)
         /\ UNCHANGED assinatura
    ELSE /\ assinatura' = r.val
         /\ Continue("createElementSignature")

SignSignedInfo ==
    /\ pc = "signSignedInfo"
    /\ stages' = Append(stages, "signSignedInfo")
    /\ \E random \in 0..MaxRandom :
          Signed(signSignedInfo(signedInfo, privateKey, random))
    /\ UNCHANGED << aside, other, doc, dados, clock, now, privateKey, cert, xmlPreparado,
                    elementoID, hash, signedInfo, signature, elemento, prev >>

\* lines 110-115; createElementSignature returns no error
CreateElementSignature ==
    /\ pc = "createElementSignature"
    /\ stages' = Append(stages, "createElementSignature")
    /\ signature' = createElementSignature(signedInfo, assinatura, cert)
    /\ pc' = "insertSignatureInXML"
    /\ UNCHANGED << aside, other, doc, dados, clock, now, resultado, err, privateKey, cert,
                    xmlPreparado, elementoID, hash, signedInfo, assinatura,
                    elemento, failed, prev >>

\* lines 117-126
Inserted(r) ==
    IF r.err # Nil
    THEN Return("insertSignatureInXML",
                "Error inserting signature: " \o r.err, r.err)
    ELSE /\ resultado' = [resultado EXCEPT !.XMLSigned = r.val,
                                           !.Success = TRUE]
         /\ err' = Nil
         /\ pc' = "returned"
         /\ UNCHANGED failed

InsertSignatureInXML ==
    /\ pc = "insertSignatureInXML"
    /\ stages' = Append(stages, "insertSignatureInXML")
    /\ Inserted(insertSignatureInXML(xmlPreparado, signature,
                                     dados.TagSignature))
    /\ UNCHANGED << aside, other, doc, dados, clock, now, privateKey, cert, xmlPreparado,
                    elementoID, hash, signedInfo, assinatura, signature,
                    elemento, prev >>

Next ==
    \/ Call
    \/ Repeat
    \/ Resign
    \/ ValidateInput
    \/ ExtractPfxCertificate
    \/ ValidateCertificate
    \/ PrepareXMLForSigning
    \/ CalculateElementHash
    \/ CreateSignedInfo
    \/ CanonicalizeSignedInfo
    \/ SignSignedInfo
    \/ CreateElementSignature
    \/ InsertSignatureInXML

Spec == Init /\ [][Next]_vars

\* ------------------------------------------------------------------------
\* Two SignXML calls at a time.  The locals of the second call are the
\* record other; Step is SignXML from one stage to the next on a record of
\* locals
\* ------------------------------------------------------------------------

\* lines 50-56 for document d, at time date
Entered(d, certificate, id, tag, date) ==
    [NoOther EXCEPT
       !.pc = "validateInput",
       !.doc = d,
       !.dados = [XMLContent |-> cleanXML(XMLOf(d)), Certificate |-> certificate,
                  ElementID |-> id, TagSignature |-> tag],
       !.resultado = [Date |-> date, Success |-> FALSE,
                      XMLContent |-> cleanXML(XMLOf(d)),
                      XMLSigned |-> "", Error |-> Nil]]

\* resultado.Error = wrapped; return resultado, e
returnError(c, stage, wrapped, e) ==
    [c EXCEPT !.resultado.Error = wrapped, !.err = e, !.failed = stage,
              !.pc = "returned"]

\* lines 58-62
afterValidateInput(c, e) ==
    IF e # Nil THEN returnError(c, "validateInput", e, e)
    ELSE [c EXCEPT !.pc = "extractPfxCertificate"]

\* lines 64-69
afterExtractPfxCertificate(c, r) ==
    IF r.err # Nil
    THEN returnError(c, "extractPfxCertificate",
                     "Error extracting PFX certificate: " \o r.err, r.err)
    ELSE [c EXCEPT !.privateKey = r.privateKey, !.cert = r.certificate,
                   !.pc = "validateCertificate"]

\* lines 71-76
afterValidateCertificate(c, e) ==
    IF e # Nil
    THEN returnError(c, "validateCertificate", "Invalid certificate: " \o e, e)
    ELSE [c EXCEPT !.pc = "prepareXMLForSigning"]

\* lines 78-83
afterPrepareXMLForSigning(c, r) ==
    IF r.err # Nil
    THEN returnError(c, "prepareXMLForSigning",
                     "Error preparing XML: " \o r.err, r.err)
    ELSE [c EXCEPT !.xmlPreparado = r.xml, !.elementoID = r.id,
                   !.pc = "calculateElementHash"]

\* lines 85-90
afterCalculateElementHash(c, r) ==
    IF r.err # Nil
    THEN returnError(c, "calculateElementHash",
                     "Error calculating hash: " \o r.err, r.err)
    ELSE [c EXCEPT !.hash = r.val, !.pc = "createSignedInfo"]

\* lines 103-108
afterSignSignedInfo(c, r) ==
    IF r.err # Nil
    THEN returnError(c, "signSignedInfo", "Error signing: " \o r.err, r.err)
    ELSE [c EXCEPT !.assinatura = r.val, !.pc = "createElementSignature"]

\* lines 117-126
afterInsertSignatureInXML(c, r) ==
    IF r.err # Nil
    THEN returnError(c, "insertSignatureInXML",
                     "Error inserting signature: " \o r.err, r.err)
    ELSE [c EXCEPT !.resultado.XMLSigned = r.val, !.resultado.Success = TRUE,
                   !.err = Nil, !.pc = "returned"]

\* the stage at c.pc, with time.Now() = t and rand.Reader yielding random
Step(c, t, random) ==
    CASE c.pc = "validateInput" ->
           afterValidateInput(c, validateInput(c.dados))
      [] c.pc = "extractPfxCertificate" ->
           afterExtractPfxCertificate(c, extractPfxCertificate(c.dados.Certificate))
      [] c.pc = "validateCertificate" ->
           afterValidateCertificate([c EXCEPT !.now = t],
                                    validateCertificate(c.cert, t))
      [] c.pc = "prepareXMLForSigning" ->
           afterPrepareXMLForSigning(
               c, prepareXMLForSigning(c.dados.XMLContent, c.dados.ElementID))
      [] c.pc = "calculateElementHash" ->
           afterCalculateElementHash(
               c, calculateElementHash(c.xmlPreparado, c.elementoID))
      [] c.pc = "createSignedInfo" ->
           [c EXCEPT !.signedInfo = createSignedInfo(c.hash, c.elementoID),
                     !.pc = "canonicalizeXML"]
      [] c.pc = "canonicalizeXML" ->
           [c EXCEPT !.signedInfo = canonicalizeXML(c.signedInfo),
                     !.pc = "signSignedInfo"]
      [] c.pc = "signSignedInfo" ->
           afterSignSignedInfo(
               c, signSignedInfo(c.signedInfo, c.privateKey, random))
      [] c.pc = "createElementSignature" ->
           [c EXCEPT !.signature = createElementSignature(c.signedInfo,
                                                          c.assinatura, c.cert),
                     !.pc = "insertSignatureInXML"]
      [] c.pc = "insertSignatureInXML" ->
           afterInsertSignatureInXML(
               c, insertSignatureInXML(c.xmlPreparado, c.signature,
                                       c.dados.TagSignature))
      [] OTHER -> c

\* what the two concurrent callers pass
FirstCalls ==
    { [doc |-> d, Certificate |-> [File |-> f, Password |-> "secret"],
       ElementID |-> "", TagSignature |-> ""] :
        d \in {1, 5}, f \in {"pfx-leaf", "pfx-ec"} }

OtherCalls ==
    { [doc |-> d, Certificate |-> [File |-> "pfx-leaf", Password |-> "secret"],
       ElementID |-> "", TagSignature |-> "Doc"] : d \in {1, 4, 7} }

\* a goroutine calls SignXML
CallFirst ==
    /\ pc = "idle"
    /\ \E call \in FirstCalls :
          Enter(call.doc, call.Certificate, call.ElementID, call.TagSignature)
    /\ prev' = NoPrev

\* another goroutine calls SignXML
CallOther ==
    /\ other.pc = "idle"
    /\ \E call \in OtherCalls :
          other' = Entered(call.doc, call.Certificate, call.ElementID,
                           call.TagSignature, clock)
    /\ UNCHANGED << pc, doc, dados, clock, now, resultado, err, privateKey,
                    cert, xmlPreparado, elementoID, hash, signedInfo,
                    assinatura, signature, elemento, stages, failed, prev,
                    aside >>

\* the other call runs its next stage
OtherStep ==
    /\ other.pc \notin {"idle", "returned"}
    /\ \E t \in (IF other.pc = "validateCertificate" THEN clock..MaxTime
                  ELSE {clock}),
          random \in (IF other.pc = "signSignedInfo" THEN 0..MaxRandom ELSE {0}) :
          /\ other' = Step(other, t, random)
          /\ clock' = t
    /\ UNCHANGED << pc, doc, dados, now, resultado, err, privateKey, cert,
                    xmlPreparado, elementoID, hash, signedInfo, assinatura,
                    signature, elemento, stages, failed, prev, aside >>

NextConcurrent ==
    \/ CallFirst
    \/ CallOther
    \/ OtherStep
    \/ ValidateInput
    \/ ExtractPfxCertificate
    \/ ValidateCertificate
    \/ PrepareXMLForSigning
    \/ CalculateElementHash
    \/ CreateSignedInfo
    \/ CanonicalizeSignedInfo
    \/ SignSignedInfo
    \/ CreateElementSignature
    \/ InsertSignatureInXML

SpecConcurrent == Init /\ [][NextConcurrent]_vars

\* ------------------------------------------------------------------------
\* package auth: the middleware that lets a request through to the wrapped
\* handler when it carries a token.  A token is the three segments
\* header.claims.signature; here the header segment is the name of the
\* algorithm, the claims segment is "exp" and a time (or "noexp"), a comma
\* and the user_id, and an HMAC is a symbolic value that names the key and
\* what was signed (no forgery)
\* ------------------------------------------------------------------------

Digits == "0123456789"

\* hmac.New(sha256.New, key) over header.claims
HMAC(key, header, claims) == "mac-" \o key \o "-" \o header \o "-" \o claims

\* jwt.NewWithClaims(method, claims).SignedString(key)
SignedString(method, claims, key) ==
    method \o "." \o claims \o "." \o HMAC(key, method, claims)

\* GetSignToken: an HS256 token that expires at expiresAt
GetSignToken(userID, expiresAt, key) ==
    SignedString("HS256", "exp" \o At(Digits, expiresAt + 1) \o "," \o userID, key)

\* the claims segment decoded: ExpiresAt is -1 when the token has no exp
claimsAt(claims, comma) ==
    IF comma = 0 THEN [err |-> "token is malformed", ExpiresAt |-> -1, user_id |-> ""]
    ELSE IF SubSeq(claims, 1, comma - 1) = "noexp"
    THEN [err |-> Nil, ExpiresAt |-> -1,
          user_id |-> SubSeq(claims, comma + 1, Len(claims))]
    ELSE IF comma = 5 /\ SubSeq(claims, 1, 3) = "exp"
            /\ Contains(Digits, At(claims, 4))
    THEN [err |-> Nil, ExpiresAt |-> Index(Digits, At(claims, 4)) - 1,
          user_id |-> SubSeq(claims, comma + 1, Len(claims))]
    ELSE [err |-> "token is malformed", ExpiresAt |-> -1, user_id |-> ""]

\* the signing method's Verify with a []byte key
verifySignature(method, claims, sig, key) ==
    IF method \in {"HS256", "HS384", "HS512"}
    THEN IF sig = HMAC(key, method, claims) THEN Nil ELSE "signature is invalid"
    ELSE IF method = "none" THEN "'none' signature type is not allowed"
    ELSE IF method \in {"RS256", "ES256", "PS256"} THEN "key is of invalid type"
    ELSE "signing method (alg) is unavailable"

\* the registered claims validated at time t
validateClaims(c, t) ==
    IF c.ExpiresAt # -1 /\ ~(t < c.ExpiresAt) THEN "token is expired" ELSE Nil

parsed(c, sigErr, t) ==
    IF c.err # Nil THEN [err |-> c.err, Valid |-> FALSE, claims |-> c]
    ELSE IF sigErr # Nil THEN [err |-> sigErr, Valid |-> FALSE, claims |-> c]
    ELSE IF validateClaims(c, t) # Nil
    THEN [err |-> validateClaims(c, t), Valid |-> FALSE, claims |-> c]
    ELSE [err |-> Nil, Valid |-> TRUE, claims |-> c]

parseSegments(tokenString, dot1, dot2, key, t) ==
    IF dot1 = 0 \/ dot2 = 0 \/ IndexFrom(tokenString, ".", dot2 + 1) # 0
    THEN [err |-> "token is malformed", Valid |-> FALSE,
          claims |-> [err |-> "token is malformed", ExpiresAt |-> -1, user_id |-> ""]]
    ELSE parsed(claimsAt(SubSeq(tokenString, dot1 + 1, dot2 - 1),
                         Index(SubSeq(tokenString, dot1 + 1, dot2 - 1), ",")),
                verifySignature(SubSeq(tokenString, 1, dot1 - 1),
                                SubSeq(tokenString, dot1 + 1, dot2 - 1),
                                SubSeq(tokenString, dot2 + 1, Len(tokenString)),
                                key),
                t)

secondDot(tokenString, dot1) ==
    IF dot1 = 0 THEN 0 ELSE IndexFrom(tokenString, ".", dot1 + 1)

\* jwt.ParseWithClaims with a key function that returns key, at time t
ParseWithClaims(tokenString, key, t) ==
    parseSegments(tokenString, Index(tokenString, "."),
                  secondDot(tokenString, Index(tokenString, ".")), key, t)

\* strings.Split(s, sep) has exactly two parts: the one sep is at i
splitsInTwo(s, sep, i) == i # 0 /\ IndexFrom(s, sep, i + 1) = 0

\* base64.StdEncoding.DecodeString, of the alphabet StdEncoding writes
decoded(c, rest) ==
    IF rest.err # Nil THEN rest ELSE [err |-> Nil, bytes |-> c \o rest.bytes]

RECURSIVE DecodeString(_)
DecodeString(s) ==
    IF Len(s) = 0 THEN [err |-> Nil, bytes |-> ""]
    ELSE IF At(s, 1) \in AlphaNumChars
    THEN decoded(At(s, 1), DecodeString(SubSeq(s, 2, Len(s))))
    ELSE IF At(s, 1) = "+" /\ Len(s) >= 2 /\ At(s, 2) \in AlphaNumChars
            /\ Index(AlphaNum, At(s, 2)) <= Len(Specials)
    THEN decoded(At(Specials, Index(AlphaNum, At(s, 2))),
                 DecodeString(SubSeq(s, 3, Len(s))))
    ELSE [err |-> "illegal base64 data", bytes |-> ""]

\* what verifyToken returns when the credential is refused
Refused == [isValid |-> FALSE, Data |-> << >>]

\* the fields of a.claims.GetFields() before a token is read
GetFields == [user_id |-> ""]

\* auth.go, extractToken: the second of two words, or nothing
extractTokenAt(bearerToken, i) ==
    IF splitsInTwo(bearerToken, " ", i)
    THEN SubSeq(bearerToken, i + 1, Len(bearerToken))
    ELSE ""

authExtractToken(bearerToken) == extractTokenAt(bearerToken, Index(bearerToken, " "))

verified(token) ==
    IF token.err # Nil THEN Refused
    ELSE IF ~token.Valid \/ token.claims.ExpiresAt = -1 THEN Refused
    ELSE [isValid |-> TRUE, Data |-> [user_id |-> token.claims.user_id]]

\* auth.go, verifyToken
authVerifyToken(key, bearerToken, t) ==
    verified(ParseWithClaims(authExtractToken(bearerToken), key, t))

\* extractToken: the two words, or no type and the whole header
typeAndTokenAt(bearerToken, i) ==
    IF splitsInTwo(bearerToken, " ", i)
    THEN << SubSeq(bearerToken, 1, i - 1), SubSeq(bearerToken, i + 1, Len(bearerToken)) >>
    ELSE << "", bearerToken >>

extractToken(bearerToken) == typeAndTokenAt(bearerToken, Index(bearerToken, " "))

\* the Basic credential user:password
basicParts(d, colon) ==
    IF d.err # Nil THEN Refused
    ELSE IF ~splitsInTwo(d.bytes, ":", colon) \/ colon = 1 \/ colon = Len(d.bytes)
    THEN Refused
    ELSE [isValid |-> TRUE,
          Data |-> [user_id |-> GetFields.user_id,
                    client_id |-> SubSeq(d.bytes, 1, colon - 1),
                    secret |-> SubSeq(d.bytes, colon + 1, Len(d.bytes))]]

basicToken(d) == basicParts(d, Index(d.bytes, ":"))

verifyTyped(key, typed, t) ==
    IF typed[2] = "" THEN Refused
    ELSE IF typed[1] = "Basic" THEN basicToken(DecodeString(typed[2]))
    ELSE verified(ParseWithClaims(typed[2], key, t))

\* verifyToken
verifyToken(key, bearerToken, t) == verifyTyped(key, extractToken(bearerToken), t)

\* the key the Authenticator was initialized with, and another key
secretKey == "k"

OtherKey == "x"

\* the values the middleware was asked to put in the context
values == << "user_id", "client_id" >>

\* the mock of CryptService: AES first, then the hybrid scheme
DecryptWithMasterKeySimple(encryptedData) ==
    IF HasAt(encryptedData, "aes", 1)
    THEN [err |-> Nil, bytes |-> SubSeq(encryptedData, 4, Len(encryptedData))]
    ELSE [err |-> "cannot decrypt", bytes |-> ""]

DecryptData(encryptedData) ==
    IF HasAt(encryptedData, "hyb", 1)
    THEN [err |-> Nil, bytes |-> SubSeq(encryptedData, 4, Len(encryptedData))]
    ELSE [err |-> "cannot decrypt", bytes |-> ""]

contextValue(cryptService, field) ==
    IF cryptService /\ field # ""
    THEN IF DecryptWithMasterKeySimple(field).err = Nil
         THEN DecryptWithMasterKeySimple(field).bytes
         ELSE IF DecryptData(field).err = Nil THEN DecryptData(field).bytes
         ELSE field
    ELSE field

\* the context the wrapped handler gets: the requested values the claims have
contextOf(cryptService, fields) ==
    [v \in {values[i] : i \in 1..Len(values)} \cap DOMAIN fields |->
        contextValue(cryptService, fields[v])]

\* the value of the first cookie named CIMSSESSIONTOKEN, or the header
sessionCookies(cookies) ==
    {i \in 1..Len(cookies) : cookies[i].Name = "CIMSSESSIONTOKEN"}

headerOrCookie(Authorization, cookies) ==
    IF sessionCookies(cookies) = {} THEN Authorization
    ELSE cookies[CHOOSE i \in sessionCookies(cookies) :
                    \A j \in sessionCookies(cookies) : i <= j].Value

\* the credentials of the requests
ClaimsSegments ==
    {"exp0,7", "exp" \o At(Digits, MaxTime + 2) \o ",aes7", "noexp,7"}

Tokens ==
    {SignedString(method, c, key) :
        method \in {"HS256", "none", "RS256"}, c \in ClaimsSegments,
        key \in {secretKey, OtherKey}}
    \cup {GetSignToken("hyb7", MaxTime + 1, secretKey),
          "none.exp" \o At(Digits, MaxTime + 2) \o ",7.", "junk", "a.b"}

BasicCredentials ==
    {"Basic " \o StdEncoding("u:p"), "Basic " \o StdEncoding("u:"),
     "Basic " \o StdEncoding("up"), "Basic =", "Basic "}

Authorizations ==
    {""} \cup Tokens \cup {"Bearer " \o token : token \in Tokens}
    \cup BasicCredentials \cup {"Bearer a b"}

CookieJars ==
    {<< >>,
     << [Name |-> "CIMSSESSIONTOKEN", Value |-> GetSignToken("7", MaxTime + 1, secretKey)] >>,
     << [Name |-> "CIMSSESSIONTOKEN", Value |-> GetSignToken("7", MaxTime + 1, OtherKey)] >>,
     << [Name |-> "lang", Value |-> GetSignToken("7", MaxTime + 1, secretKey)],
        [Name |-> "CIMSSESSIONTOKEN", Value |-> "Basic " \o StdEncoding("u:p")],
        [Name |-> "CIMSSESSIONTOKEN", Value |-> GetSignToken("7", MaxTime + 1, secretKey)] >>,
     << [Name |-> "lang", Value |-> GetSignToken("7", MaxTime + 1, secretKey)] >>}

\* a request arrives at a handler wrapped by one of the two middlewares
Request ==
    /\ http.pc = "idle"
    /\ \E mw \in {"AuthMiddleware", "AuthMiddlewareWithCrypt"},
          cryptService \in BOOLEAN, Authorization \in Authorizations,
          cookies \in CookieJars, t \in 0..MaxTime :
          /\ mw = "AuthMiddleware" => ~cryptService
          /\ http' = [NoRequest EXCEPT !.pc = "received", !.mw = mw,
                        !.cryptService = cryptService,
                        !.Authorization = Authorization,
                        !.cookie = cookies, !.now = t]
    /\ UNCHANGED besidesHttp

\* the handler runs with the context, or the response is 401
respond(cryptService, v) ==
    IF v.isValid
    THEN [http EXCEPT !.pc = "responded", !.invoked = TRUE, !.status = 200,
                      !.ctx = contextOf(cryptService, v.Data)]
    ELSE [http EXCEPT !.pc = "responded", !.status = 401]

\* auth.go, AuthMiddleware: the Authorization header only
AuthMiddleware ==
    /\ http.pc = "received"
    /\ http.mw = "AuthMiddleware"
    /\ http' = respond(FALSE, authVerifyToken(secretKey, http.Authorization, http.now))
    /\ UNCHANGED besidesHttp

\* AuthMiddlewareWithCrypt: the session cookie before the header
AuthMiddlewareWithCrypt ==
    /\ http.pc = "received"
    /\ http.mw = "AuthMiddlewareWithCrypt"
    /\ http' = respond(http.cryptService,
                       verifyToken(secretKey,
                                   headerOrCookie(http.Authorization, http.cookie),
                                   http.now))
    /\ UNCHANGED besidesHttp

NextAuth ==
    \/ Request
    \/ AuthMiddleware
    \/ AuthMiddlewareWithCrypt

SpecAuth == Init /\ [][NextAuth]_vars

\* ------------------------------------------------------------------------
\* the normalizations on their own: a text is given, then canonicalizeXML,
\* cleanXML and applyTransformations are applied to what the one before
\* returned
\* ------------------------------------------------------------------------

\* how many pieces a text is made of
MaxPieces == 3

\* how many functions are applied in a row
MaxOps == 2

Pieces ==
    {"<a>", "x", " ", "\n", "\t", "\r", "> <", "<Signature>s</Signature>"}

RECURSIVE TextsOf(_)
TextsOf(n) ==
    IF n = 0 THEN {""}
    ELSE TextsOf(n - 1) \cup {p \o q : p \in Pieces, q \in TextsOf(n - 1)}

Given ==
    /\ norm = NoText
    /\ \E input \in TextsOf(MaxPieces) :
          norm' = [in |-> input, ops |-> << "given" >>, prev |-> input,
                   out |-> input]
    /\ UNCHANGED besidesNorm

applied(op, result) ==
    [norm EXCEPT !.ops = Append(@, op), !.prev = norm.out, !.out = result]

Canonicalize ==
    /\ Len(norm.ops) \in 1..MaxOps
    /\ norm' = applied("canonicalizeXML", canonicalizeXML(norm.out))
    /\ UNCHANGED besidesNorm

Clean ==
    /\ Len(norm.ops) \in 1..MaxOps
    /\ norm' = applied("cleanXML", cleanXML(norm.out))
    /\ UNCHANGED besidesNorm

Transform ==
    /\ Len(norm.ops) \in 1..MaxOps
    /\ norm' = applied("applyTransformations", applyTransformations(norm.out))
    /\ UNCHANGED besidesNorm

NextNorm ==
    \/ Given
    \/ Canonicalize
    \/ Clean
    \/ Transform

SpecNorm == Init /\ [][NextNorm]_vars

\* ------------------------------------------------------------------------
\* the entry points that read a certificate: ReadPFXCertificate,
\* ReadPFXCertificateFromBytes and GetCertificateInfo, and a SignXML with
\* the bundle one of them returned
\* ------------------------------------------------------------------------

NoA1 == [File |-> "", Password |-> ""]

\* os.Stat and os.ReadFile on the paths of the model
ReadFile(path) ==
    CASE path = "/certs/leaf.pfx" -> [exists |-> TRUE, bytes |-> "pfx-leaf", err |-> Nil]
      [] path = "/certs/nokey.pfx" -> [exists |-> TRUE, bytes |-> "pfx-nokey", err |-> Nil]
      [] path = "/certs" ->
            [exists |-> TRUE, bytes |-> "", err |-> "read /certs: is a directory"]
      [] OTHER -> [exists |-> FALSE, bytes |-> "", err |-> "no such file or directory"]

\* lines 416-426 without the call of validateCertificate
loadedUnchecked(a1, r, t) ==
    IF r.err # Nil
    THEN [A1 |-> NoA1, err |-> "error extracting PFX certificate: " \o r.err]
    ELSE [A1 |-> a1, err |-> Nil]

\* lines 416-426 (and 396-406) for the outcome r of extractPfxCertificate,
\* the clock reading t
loaded(a1, r, t) ==
    IF r.err # Nil
    THEN [A1 |-> NoA1, err |-> "error extracting PFX certificate: " \o r.err]
    ELSE IF validateCertificate(r.certificate, t) # Nil
    THEN [A1 |-> NoA1,
          err |-> "error validating certificate: "
                    \o validateCertificate(r.certificate, t)]
    ELSE [A1 |-> a1, err |-> Nil]

ReadPFXCertificateFromBytes(certificadoBytes, senha, t) ==
    loaded([File |-> certificadoBytes, Password |-> senha],
           extractPfxCertificate([File |-> certificadoBytes, Password |-> senha]),
           t)

readFrom(path, f, senha, t) ==
    IF ~f.exists THEN [A1 |-> NoA1, err |-> "directory not found: " \o path]
    ELSE IF f.err # Nil
    THEN [A1 |-> NoA1,
          err |-> "error loading PFX certificate " \o path \o ": " \o f.err]
    ELSE ReadPFXCertificateFromBytes(f.bytes, senha, t)

ReadPFXCertificate(path, senha, t) == readFrom(path, ReadFile(path), senha, t)

infoOf(r) ==
    IF r.err # Nil THEN [info |-> NilCert, err |-> r.err]
    ELSE [info |-> r.certificate, err |-> Nil]

GetCertificateInfo(a1) == infoOf(extractPfxCertificate(a1))

Archives == {"", "garbage", "pfx-leaf", "pfx-nokey", "pfx-nocert", "pfx-blank"}

Passphrases == {"secret", " ", ""}

Paths == {"/certs/leaf.pfx", "/certs/nokey.pfx", "/certs", "/certs/none.pfx"}

returned(entry, path, file, senha, t, r) ==
    [entry |-> entry, path |-> path, File |-> file, Password |-> senha, at |-> t,
     A1 |-> r.A1, info |-> NilCert, err |-> r.err]

ReadBytes ==
    /\ pc = "idle"
    /\ bundle = NoBundle
    /\ \E file \in Archives, senha \in Passphrases, t \in clock..MaxTime :
          /\ bundle' = returned("ReadPFXCertificateFromBytes", "", file, senha, t,
                                ReadPFXCertificateFromBytes(file, senha, t))
          /\ clock' = t
    /\ UNCHANGED besidesBundle

ReadPath ==
    /\ pc = "idle"
    /\ bundle = NoBundle
    /\ \E path \in Paths, senha \in Passphrases, t \in clock..MaxTime :
          /\ bundle' = returned("ReadPFXCertificate", path, ReadFile(path).bytes,
                                senha, t, ReadPFXCertificate(path, senha, t))
          /\ clock' = t
    /\ UNCHANGED besidesBundle

GetInfo ==
    /\ pc = "idle"
    /\ bundle = NoBundle
    /\ \E file \in Archives, senha \in Passphrases, t \in clock..MaxTime :
          /\ bundle' = [entry |-> "GetCertificateInfo", path |-> "", File |-> file,
                        Password |-> senha, at |-> t, A1 |-> NoA1,
                        info |-> GetCertificateInfo(
                                    [File |-> file, Password |-> senha]).info,
                        err |-> GetCertificateInfo(
                                    [File |-> file, Password |-> senha]).err]
          /\ clock' = t
    /\ UNCHANGED besidesBundle

\* SignXML is called with the bundle a reader returned
SignWithBundle ==
    /\ pc = "idle"
    /\ bundle.entry \in {"ReadPFXCertificate", "ReadPFXCertificateFromBytes"}
    /\ bundle.err = Nil
    /\ Enter(1, bundle.A1, "", "")
    /\ prev' = NoPrev

NextCert ==
    \/ ReadBytes
    \/ ReadPath
    \/ GetInfo
    \/ SignWithBundle
    \/ ValidateInput
    \/ ExtractPfxCertificate
    \/ ValidateCertificate
    \/ PrepareXMLForSigning
    \/ CalculateElementHash
    \/ CreateSignedInfo
    \/ CanonicalizeSignedInfo
    \/ SignSignedInfo
    \/ CreateElementSignature
    \/ InsertSignatureInXML

SpecCert == Init /\ [][NextCert]_vars

\* ------------------------------------------------------------------------
\* uow, the mutex-guarded UnitOfWork: goroutines call WithTransaction and
\* Exec on one UnitOfWork. What runs between uow.mu.Lock() and the deferred
\* Unlock() is one step; Exec takes no lock and is two steps, one for each
\* read of uow.tx
\* ------------------------------------------------------------------------

\* a panic that nothing recovers ends the program
Running == \A i \in Goroutines : uow.g[i].pc # "panicked"

CanCall(i) ==
    /\ Running
    /\ uow.g[i].pc \in {"idle", "returned"}
    /\ uow.g[i].calls < MaxCalls

\* the goroutine as it enters a call
entering(i, name) ==
    [NoCall EXCEPT !.call = name, !.calls = uow.g[i].calls + 1]

\* sql.DB.BeginTx: the next transaction of the database
BeginTx(i) == [owner |-> i, ops |-> << >>, stmts |-> {}]

\* WithTransaction calls Begin: a transaction in progress refuses it, else
\* db.BeginTx opens a transaction or fails
Begin(i) ==
    /\ CanCall(i)
    /\ \E opened \in BOOLEAN :
          uow' = IF uow.tx # 0
                 THEN [uow EXCEPT !.g[i] =
                          [entering(i, "WithTransaction") EXCEPT
                              !.pc = "returned",
                              !.ret = "transaction already in progress"]]
                 ELSE IF ~opened
                 THEN [uow EXCEPT !.g[i] =
                          [entering(i, "WithTransaction") EXCEPT
                              !.pc = "returned", !.ret = "begin failed"]]
                 ELSE [uow EXCEPT
                          !.tx = Len(uow.txs) + 1,
                          !.txs = Append(@, BeginTx(i)),
                          !.g[i] = [entering(i, "WithTransaction") EXCEPT
                                       !.pc = "fn", !.began = Len(uow.txs) + 1]]
    /\ UNCHANGED besidesUow

\* fn registers a repository
RegisterRepository(i) ==
    /\ Running
    /\ uow.g[i].pc = "fn"
    /\ "orders" \notin uow.repositories
    /\ uow' = [uow EXCEPT !.repositories = @ \cup {"orders"}]
    /\ UNCHANGED besidesUow

\* Exec, Query, QueryRow, called by fn or on their own: the condition
\* uow.tx != nil, read without the lock
Exec(i) ==
    /\ \/ /\ CanCall(i)
          /\ uow' = [uow EXCEPT !.g[i] = [entering(i, "Exec") EXCEPT
                                            !.pc = "Exec", !.seen = uow.tx]]
       \/ /\ Running
          /\ uow.g[i].pc = "fn"
          /\ uow.g[i].ran = -1
          /\ uow' = [uow EXCEPT !.g[i].pc = "Exec", !.g[i].seen = uow.tx]
    /\ UNCHANGED besidesUow

\* the goroutine after its statement ran in t
executed(i, t) ==
    [uow.g[i] EXCEPT !.ran = t,
                     !.pc = IF uow.g[i].call = "Exec" THEN "returned" ELSE "fn"]

\* the statement runs: on the database when the condition read nil, else
\* on uow.tx, which the build reads again or keeps from the condition; a
\* second read that finds nil dereferences it
ExecContext(i) ==
    /\ Running
    /\ uow.g[i].pc = "Exec"
    /\ \E t \in (IF uow.g[i].seen = 0 THEN {0} ELSE {uow.g[i].seen, uow.tx}) :
          uow' = IF uow.g[i].seen = 0
                 THEN [uow EXCEPT !.g[i] = executed(i, 0)]
                 ELSE IF t = 0
                 THEN [uow EXCEPT !.g[i].pc = "panicked"]
                 ELSE [uow EXCEPT !.txs[t].stmts = @ \cup {i},
                                  !.g[i] = executed(i, t)]
    /\ UNCHANGED besidesUow

\* fn returns nil or an error
fn(i) ==
    /\ Running
    /\ uow.g[i].pc = "fn"
    /\ \E e \in {Nil, "fn failed"} :
          uow' = [uow EXCEPT !.g[i].fnErr = e,
                             !.g[i].pc = IF e = Nil THEN "Commit" ELSE "Rollback"]
    /\ UNCHANGED besidesUow

\* WithTransaction returns uow.Commit(): the transaction and the
\* repositories are cleared when tx.Commit succeeded
Commit(i) ==
    /\ Running
    /\ uow.g[i].pc = "Commit"
    /\ \E committed \in BOOLEAN :
          uow' = IF uow.tx = 0
                 THEN [uow EXCEPT !.g[i].pc = "returned",
                                  !.g[i].ret = "no transaction in progress"]
                 ELSE IF ~committed
                 THEN [uow EXCEPT !.txs[uow.tx].ops = Append(@, "Commit"),
                                  !.g[i].pc = "returned",
                                  !.g[i].ret = "commit failed"]
                 ELSE [uow EXCEPT !.txs[uow.tx].ops = Append(@, "Commit"),
                                  !.tx = 0,
                                  !.repositories = {},
                                  !.g[i].pc = "returned",
                                  !.g[i].ret = Nil]
    /\ UNCHANGED besidesUow

\* what WithTransaction returns after fn returned e and Rollback rbErr
afterRollback(e, rbErr) == IF rbErr # Nil THEN rbErr ELSE e

\* fn failed and WithTransaction calls uow.Rollback(): the transaction and
\* the repositories are cleared whatever tx.Rollback returned
Rollback(i) ==
    /\ Running
    /\ uow.g[i].pc = "Rollback"
    /\ \E rolledBack \in BOOLEAN :
          uow' = IF uow.tx = 0
                 THEN [uow EXCEPT
                          !.g[i].pc = "returned",
                          !.g[i].ret = afterRollback(uow.g[i].fnErr,
                                                     "no transaction in progress")]
                 ELSE [uow EXCEPT
                          !.txs[uow.tx].ops = Append(@, "Rollback"),
                          !.tx = 0,
                          !.repositories = {},
                          !.g[i].pc = "returned",
                          !.g[i].ret =
                             afterRollback(uow.g[i].fnErr,
                                           IF rolledBack THEN Nil
                                           ELSE "rollback failed")]
    /\ UNCHANGED besidesUow

NextUow ==
    \/ \E i \in Goroutines : Begin(i)
    \/ \E i \in Goroutines : RegisterRepository(i)
    \/ \E i \in Goroutines : Exec(i)
    \/ \E i \in Goroutines : ExecContext(i)
    \/ \E i \in Goroutines : fn(i)
    \/ \E i \in Goroutines : Commit(i)
    \/ \E i \in Goroutines : Rollback(i)

SpecUow == Init /\ [][NextUow]_vars

\* ------------------------------------------------------------------------
\* uow, the context-carried transaction, and postgres.sqlxDB: WithTransaction
\* puts the transaction in the context it hands to fn, and the wrapper
\* looks it up with uow.GetTx
\* ------------------------------------------------------------------------

\* how many statements are issued between two calls of WithTransaction
MaxStatements == 2

\* a context is what it holds under txKey: a transaction, or 0 for none
Background == [transaction |-> 0]

\* context.WithValue(c, txKey, t)
WithValue(c, t) == [c EXCEPT !.transaction = t]

\* uow.GetTx(c): the transaction of the context, nil (0) when it has none
GetTx(c) == c.transaction

\* the methods of sqlxDB that issue a statement and take a context
ContextMethods ==
    {"ExecContext", "GetContext", "NamedExecContext", "NamedQueryContext",
     "QueryContext", "QueryRowContext", "QueryRowxContext", "SelectContext"}

\* the methods of sqlxDB that issue a statement and take no context
ContextLess ==
    {"Exec", "Get", "NamedExec", "NamedQuery", "PrepareNamed", "Preparex",
     "Query", "QueryRow", "QueryRowx", "Rebind", "Select"}

\* where a method of sqlxDB called with context c runs its statement: in a
\* transaction, or on d.db (0)
sqlxDB(method, c) ==
    IF method \in ContextLess THEN GetTx(Background)
    ELSE IF method = "NamedQueryContext" THEN 0
    ELSE GetTx(c)

\* WithTransaction starts: u.db.BeginTxx opens a transaction or fails
BeginTxx ==
    /\ pool.pc \in {"idle", "returned"}
    /\ pool.calls < MaxCalls
    /\ \E opened \in BOOLEAN :
          pool' = IF opened
                  THEN [pool EXCEPT !.pc = "fn",
                                    !.calls = @ + 1,
                                    !.tx = Len(pool.txs) + 1,
                                    !.txs = Append(@, << >>),
                                    !.stmts = << >>,
                                    !.fnErr = Nil,
                                    !.ret = Nil]
                  ELSE [pool EXCEPT !.pc = "returned",
                                    !.calls = @ + 1,
                                    !.tx = 0,
                                    !.stmts = << >>,
                                    !.fnErr = Nil,
                                    !.ret = "begin failed"]
    /\ UNCHANGED besidesPool

\* the contexts a caller has at hand: inside fn the one WithTransaction
\* made and the one it was called with, outside only the latter
Contexts ==
    IF pool.pc = "fn" THEN {WithValue(Background, pool.tx), Background}
    ELSE {Background}

\* a method of the wrapper is called, inside fn or outside
Statement ==
    /\ pool.pc \in {"idle", "fn", "returned"}
    /\ Len(pool.stmts) < MaxStatements
    /\ \E method \in ContextMethods \cup ContextLess, c \in Contexts :
          pool' = [pool EXCEPT !.stmts =
                      Append(@, [method |-> method,
                                 carried |-> GetTx(c),
                                 inside |-> IF pool.pc = "fn" THEN pool.tx ELSE 0,
                                 ran |-> sqlxDB(method, c)])]
    /\ UNCHANGED besidesPool

\* fn returns nil or an error
fnReturns ==
    /\ pool.pc = "fn"
    /\ \E e \in {Nil, "fn failed"} :
          pool' = [pool EXCEPT !.fnErr = e,
                               !.pc = IF e = Nil THEN "Commit" ELSE "Rollback"]
    /\ UNCHANGED besidesPool

\* errors.Join(e, rbErr)
Join(e, rbErr) == e \o "\n" \o rbErr

\* fn failed: tx.Rollback(), and the error of fn is returned, joined with
\* the error of the rollback when it failed
txRollback ==
    /\ pool.pc = "Rollback"
    /\ \E rolledBack \in BOOLEAN :
          pool' = [pool EXCEPT !.txs[pool.tx] = Append(@, "Rollback"),
                               !.pc = "returned",
                               !.ret = IF rolledBack THEN pool.fnErr
                                       ELSE Join(pool.fnErr, "rollback failed")]
    /\ UNCHANGED besidesPool

\* fn succeeded: WithTransaction returns tx.Commit()
txCommit ==
    /\ pool.pc = "Commit"
    /\ \E committed \in BOOLEAN :
          pool' = [pool EXCEPT !.txs[pool.tx] = Append(@, "Commit"),
                               !.pc = "returned",
                               !.ret = IF committed THEN Nil ELSE "commit failed"]
    /\ UNCHANGED besidesPool

NextPool ==
    \/ BeginTxx
    \/ Statement
    \/ fnReturns
    \/ txRollback
    \/ txCommit

SpecPool == Init /\ [][NextPool]_vars

\* ------------------------------------------------------------------------
\* uow, the global instance: SetGlobalDB, GetUoW, autoInitUoW
\* ------------------------------------------------------------------------

\* how many times SetGlobalDB is called
MaxSets == 2

\* the databases SetGlobalDB is called with, 0 the nil interface
Databases == {0, 1, 2}

SetGlobalDB ==
    /\ globals.sets < MaxSets
    /\ \E db \in Databases :
          globals' = [globals EXCEPT !.globalDB = db,
                                     !.sets = @ + 1,
                                     !.wasSet = @ \/ db # 0]
    /\ UNCHANGED besidesGlobals

\* GetUoW is called, also by a goroutine that recovered from its panic:
\* the condition globalUoW == nil
GetUoW(i) ==
    /\ globals.g[i].pc \in {"idle", "returned", "panicked"}
    /\ globals.g[i].calls < MaxCalls
    /\ globals' = [globals EXCEPT
                      !.g[i] = [pc |-> IF globals.globalUoW = 0 THEN "autoInitUoW"
                                       ELSE "return",
                                calls |-> globals.g[i].calls + 1,
                                after |-> globals.wasSet,
                                ret |-> 0]]
    /\ UNCHANGED besidesGlobals

\* uoOnce.Do(f): f runs in the first call only, under the lock of the
\* Once, and a Do whose f panics counts as done
autoInitUoW(i) ==
    /\ globals.g[i].pc = "autoInitUoW"
    /\ globals' = IF globals.uoOnce = "done" \/ globals.globalUoW # 0
                  THEN [globals EXCEPT !.uoOnce = "done", !.g[i].pc = "return"]
                  ELSE IF globals.globalDB = 0
                  THEN [globals EXCEPT !.uoOnce = "done", !.g[i].pc = "panicked"]
                  ELSE [globals EXCEPT !.uoOnce = "done",
                                       !.uows = Append(@, globals.globalDB),
                                       !.globalUoW = Len(globals.uows) + 1,
                                       !.g[i].pc = "return"]
    /\ UNCHANGED besidesGlobals

\* return globalUoW
GetUoWReturns(i) ==
    /\ globals.g[i].pc = "return"
    /\ globals' = [globals EXCEPT !.g[i].pc = "returned",
                                  !.g[i].ret = globals.globalUoW]
    /\ UNCHANGED besidesGlobals

NextGlobals ==
    \/ SetGlobalDB
    \/ \E i \in Goroutines : GetUoW(i)
    \/ \E i \in Goroutines : autoInitUoW(i)
    \/ \E i \in Goroutines : GetUoWReturns(i)

SpecGlobals == Init /\ [][NextGlobals]_vars

\* ------------------------------------------------------------------------
\* What the documents contain, read from their trees
\* ------------------------------------------------------------------------

\* the elements of a sequence of nodes, in document order
RECURSIVE Preorder(_)
Preorder(kids) ==
    IF kids = << >> THEN << >>
    ELSE (IF Head(kids).tag = "" THEN << >>
          ELSE << Head(kids) >> \o Preorder(Head(kids).kids))
         \o Preorder(Tail(kids))

IsIdAttr(a) == a.name \in {"Id", "id"}

CarriesId(n) == SelectSeq(n.attrs, IsIdAttr) # << >>

\* the value of the Id/id attribute of an element that carries one
IdOf(n) == SelectSeq(n.attrs, IsIdAttr)[1].value

\* the elements of document d that carry an Id/id, in document order
IdElements(d) == SelectSeq(Preorder(Documents[d]), CarriesId)

\* the elements of document d whose Id/id is exactly id
ElementsWithId(d, id) ==
    {IdElements(d)[i] : i \in {j \in 1..Len(IdElements(d)) :
                                  IdOf(IdElements(d)[j]) = id}}

IsBlank(t) == t # "" /\ FirstNotIn(t, Space, 1) = Len(t) + 1

\* nodes without the Signature elements and without the texts that are
\* only white space between tags
RECURSIVE StripAll(_)
StripAll(kids) ==
    IF kids = << >> THEN << >>
    ELSE IF Head(kids).tag = "Signature" THEN StripAll(Tail(kids))
    ELSE IF Head(kids).tag = "" /\ IsBlank(Head(kids).text)
    THEN StripAll(Tail(kids))
    ELSE IF Head(kids).tag = "" THEN << Head(kids) >> \o StripAll(Tail(kids))
    ELSE << [Head(kids) EXCEPT !.kids = StripAll(Head(kids).kids)] >>
         \o StripAll(Tail(kids))

Strip(n) == [n EXCEPT !.kids = StripAll(n.kids)]

\* the default namespaces declared in document d
Namespaces(d) ==
    UNION { {n.attrs[i].value : i \in {j \in 1..Len(n.attrs) :
                                         n.attrs[j].name = "xmlns"}} :
            n \in {Preorder(Documents[d])[k] :
                     k \in 1..Len(Preorder(Documents[d]))} }

WithNamespace(n, ns) == [n EXCEPT !.attrs = << Attr("xmlns", ns) >> \o @]

\* the texts accepted as the serialization of element n of document d: as
\* the caller wrote it or as normalized on entry, and with or without a
\* default namespace of the document declared on its opening tag
Renderings(n, d) ==
    UNION { {Serialize(m), cleanXML(Serialize(m))} :
            m \in {n} \cup {WithNamespace(n, ns) : ns \in Namespaces(d)} }

Digest(text) == StdEncoding(Sha256(text))

RECURSIVE CountFrom(_, _, _)
CountFrom(s, p, from) ==
    IF IndexFrom(s, p, from) = 0 THEN 0
    ELSE 1 + CountFrom(s, p, IndexFrom(s, p, from) + 1)

\* the number of opening tags <Signature ...> in s
SignatureBlocks(s) ==
    CountFrom(s, "<Signature ", 1) + CountFrom(s, "<Signature>", 1)

Ran(stage) == \E i \in 1..Len(stages) : stages[i] = stage

Succeeded == pc = "returned" /\ resultado.Success

\* ------------------------------------------------------------------------
\* Properties of SignXML
\* ------------------------------------------------------------------------

\* C1: whatever stage of a SignXML call fails, the result has
\* Success=false, a non-nil Error and an empty XMLSigned and a non-nil
\* error is returned; whenever Success=true the result has Error=nil, a
\* non-empty XMLSigned and the returned error is nil; every returned
\* result is exactly one of the two.
C1_FailureOrSuccess ==
    /\ failed # "" => /\ pc = "returned"
                      /\ ~resultado.Success
                      /\ resultado.Error # Nil
                      /\ resultado.XMLSigned = ""
                      /\ err # Nil
    /\ resultado.Success => /\ pc = "returned"
                            /\ failed = ""
                            /\ resultado.Error = Nil
                            /\ resultado.XMLSigned # ""
                            /\ err = Nil
    /\ pc = "returned" => (failed # "" \/ resultado.Success)
    /\ pc = "returned" /\ failed = "" => stages[Len(stages)] = "insertSignatureInXML"

\* C1 happens: the last stage, the insertion, failed after everything
\* else had been computed
C1_Witness ==
    /\ pc = "returned"
    /\ failed = "insertSignatureInXML"
    /\ signature # ""

\* C2: the validity check of the certificate runs before any digest or
\* signing step; a call whose certificate is expired or not yet valid at
\* the check returns Success=false with the expired / not-yet-valid error
\* and an empty XMLSigned, and computes no digest, SignedInfo or signature.
C2_ValidityBeforeCrypto ==
    /\ \A i \in 1..Len(stages) :
          stages[i] \in {"calculateElementHash", "createSignedInfo",
                         "signSignedInfo", "createElementSignature"}
             => \E j \in 1..(i - 1) : stages[j] = "validateCertificate"
    /\ (Ran("validateCertificate")
        /\ (now < cert.NotBefore \/ now > cert.NotAfter))
          => /\ pc = "returned"
             /\ failed = "validateCertificate"
             /\ ~resultado.Success
             /\ resultado.Error =
                  (IF now > cert.NotAfter
                   THEN "Invalid certificate: certificate expired"
                   ELSE "Invalid certificate: certificate is not yet valid")
             /\ err # Nil
             /\ resultado.XMLSigned = ""
             /\ hash = "" /\ signedInfo = "" /\ assinatura = ""
             /\ signature = ""
             /\ ~Ran("calculateElementHash") /\ ~Ran("signSignedInfo")

\* C2 happens: a call returned on a certificate that had expired
C2_Witness ==
    /\ pc = "returned"
    /\ Ran("validateCertificate")
    /\ cert # NilCert
    /\ now > cert.NotAfter

\* C3: for a document with exactly one element carrying an Id, the
\* DigestValue in the output of a successful SignXML is the base64 SHA-256
\* digest of that element's serialized subtree, prior Signature blocks
\* stripped and white space between tags collapsed.
C3_DigestOfTheElement ==
    (/\ Succeeded
     /\ Len(IdElements(doc)) = 1
     /\ Contains(resultado.XMLSigned, "<DigestValue>"))
       => \E t \in Renderings(Strip(IdElements(doc)[1]), doc) :
             /\ hash = Digest(t)
             /\ Contains(resultado.XMLSigned,
                         "<DigestValue>" \o Digest(t) \o "</DigestValue>")

\* C4: in every successful SignXML the SignedInfo embedded in the output is
\* byte for byte the collapsed SignedInfo that was signed, and the
\* SignatureValue verifies over it under the public key of the
\* certificate embedded in KeyInfo.
C4_RoundTrip ==
    (Succeeded /\ Contains(resultado.XMLSigned, "<SignedInfo "))
       => /\ signedInfo = canonicalizeXML(signedInfo)
          /\ Contains(resultado.XMLSigned,
                      signaturePart1 \o signedInfo \o signaturePart2
                        \o assinatura \o signaturePart3
                        \o StdEncoding(cert.Raw) \o signaturePart4)
          /\ \E sig \in {SignPKCS1v15(random, privateKey, Sha256(signedInfo)) :
                           random \in 0..MaxRandom} :
                /\ assinatura = StdEncoding(sig)
                /\ VerifyPKCS1v15(ParseCertificate(cert.Raw).PublicKey,
                                  Sha256(signedInfo), sig)

\* C5: two SignXML calls with identical inputs that both succeed produce
\* the same SignatureValue, the same DigestValue and the same XMLSigned.
C5_Deterministic ==
    (Succeeded /\ prev.called /\ prev.doc = doc /\ prev.Success)
       => /\ resultado.XMLSigned = prev.XMLSigned
          /\ hash = prev.hash
          /\ assinatura = prev.assinatura

\* C5 happens: the same call was made twice and succeeded twice
C5_Witness ==
    /\ Succeeded
    /\ prev.called
    /\ prev.doc = doc
    /\ prev.Success
    /\ assinatura # ""

\* C6: signing a document that contains no Signature block, with element
\* id I and insertion tag T, yields an output with exactly one Signature
\* block, immediately before a closing tag </T>, whose Reference URI is
\* "#" followed by I.
C6_OneSignatureBeforeTag ==
    (/\ Succeeded
     /\ dados.ElementID # ""
     /\ dados.TagSignature # ""
     /\ \A i \in 1..Len(Preorder(Documents[doc])) :
           Preorder(Documents[doc])[i].tag # "Signature")
       => /\ SignatureBlocks(resultado.XMLSigned) = 1
          /\ Contains(resultado.XMLSigned,
                      "</Signature>\n</" \o dados.TagSignature \o ">")
          /\ Contains(resultado.XMLSigned,
                      "<Reference URI=\"#" \o dados.ElementID \o "\">")

\* C7: with no insertion tag, the Signature is inserted once, immediately
\* before the final closing tag of the document, and nothing else of the
\* document changes.
C7_BeforeFinalClosingTag ==
    (Succeeded /\ dados.TagSignature = "")
       => resultado.XMLSigned =
            SubSeq(xmlPreparado, 1,
                   LastWhere(LAMBDA i : HasAt(xmlPreparado, "</", i),
                             1, Len(xmlPreparado)) - 1)
            \o signature \o "\n"
            \o SubSeq(xmlPreparado,
                      LastWhere(LAMBDA i : HasAt(xmlPreparado, "</", i),
                                1, Len(xmlPreparado)),
                      Len(xmlPreparado))

\* C8: when the insertion point cannot be found (no tag given and the
\* document does not end in a closing tag, or the given tag has no closing
\* tag in the document) the insertion fails and SignXML returns
\* Success=false; a successful result always contains the new Signature.
C8_InsertionPointNotFound ==
    /\ (/\ pc = "returned"
        /\ Ran("insertSignatureInXML")
        /\ IF dados.TagSignature = ""
           THEN Documents[doc][Len(Documents[doc])].tag = ""
           ELSE ~Contains(xmlPreparado, "</" \o dados.TagSignature \o ">"))
          => /\ failed = "insertSignatureInXML"
             /\ ~resultado.Success
             /\ err # Nil
    /\ Succeeded => Contains(resultado.XMLSigned, signature)

\* C9: given a target id I, the element the locator returns is the
\* serialized subtree of an element whose Id/id is exactly I.
C9_ElementWithExactId ==
    (/\ dados.ElementID # ""
     /\ Ran("calculateElementHash")
     /\ failed # "calculateElementHash")
       => \E n \in ElementsWithId(doc, dados.ElementID) :
             elemento \in Renderings(n, doc)

\* C10: when no element id is given and the document has an Id/id
\* attribute, the adopted id is the value of the first one in document
\* order, the Reference URI is "#" and that value, and the element that is
\* digested is the element carrying it.
C10_FirstIdAdopted ==
    (/\ dados.ElementID = ""
     /\ Len(IdElements(doc)) > 0
     /\ Ran("prepareXMLForSigning"))
       => /\ failed # "prepareXMLForSigning"
          /\ elementoID = IdOf(IdElements(doc)[1])
          /\ Ran("createSignedInfo")
                => Contains(signedInfo,
                            "<Reference URI=\"#"
                              \o IdOf(IdElements(doc)[1]) \o "\">")
          /\ (Ran("calculateElementHash") /\ failed # "calculateElementHash")
                => elemento \in Renderings(IdElements(doc)[1], doc)

\* the texts of a sequence of nodes, in document order
RECURSIVE Texts(_)
Texts(kids) ==
    IF kids = << >> THEN << >>
    ELSE (IF Head(kids).tag = "" THEN << Head(kids).text >>
          ELSE Texts(Head(kids).kids))
         \o Texts(Tail(kids))

\* document d is a tree: its texts hold no markup but comments and CDATA
WellFormed(d) ==
    \A i \in 1..Len(Texts(Documents[d])) :
       \/ ~Contains(Texts(Documents[d])[i], "<")
       \/ HasAt(Texts(Documents[d])[i], "<!", 1)

\* C11: a call with no element id on a document that has no Id/id
\* attribute anywhere, the input and the certificate being valid, fails
\* with the element-not-found error, Success=false and an empty XMLSigned.
C11_NoIdNotFound ==
    (/\ dados.ElementID = ""
     /\ WellFormed(doc)
     /\ Len(IdElements(doc)) = 0
     /\ Ran("prepareXMLForSigning"))
       => /\ pc = "returned"
          /\ failed = "prepareXMLForSigning"
          /\ ~resultado.Success
          /\ resultado.XMLSigned = ""
          /\ resultado.Error = "Error preparing XML: element ID not found in XML"

\* the Signature elements among the elements of a sequence of nodes
SignaturesIn(kids) ==
    SelectSeq(Preorder(kids), LAMBDA n : n.tag = "Signature")

\* document d has Signature blocks, all of them inside its one element
\* that carries an Id
SignedInsideTarget(d) ==
    /\ Len(IdElements(d)) = 1
    /\ SignaturesIn(Documents[d]) # << >>
    /\ Len(SignaturesIn(Documents[d])) = Len(SignaturesIn(IdElements(d)[1].kids))

\* C12: the DigestValue of a document with a Signature block inside the
\* target element equals the DigestValue of the same document without
\* the block: signing it again reproduces the original DigestValue.
C12_EnvelopedTransform ==
    (/\ Succeeded
     /\ prev.called
     /\ prev.Success
     /\ prev.doc # doc
     /\ SignedInsideTarget(doc))
       => hash = prev.hash

\* the blocks pkcs12.ToPEM decodes the archive of this call to
BlocksOfCall == ToPEM(dados.Certificate.File, dados.Certificate.Password).blocks

IsCertificateBlock(b) == b.Type = "CERTIFICATE" /\ ParseCertificate(b.Bytes) # NilCert

KeyOfBlock(b) ==
    IF ParsePKCS1PrivateKey(b.Bytes) # NilKey THEN ParsePKCS1PrivateKey(b.Bytes)
    ELSE ParsePKCS8PrivateKey(b.Bytes)

IsKeyBlock(b) ==
    b.Type \in {"PRIVATE KEY", "RSA PRIVATE KEY"} /\ KeyOfBlock(b) # NilKey

\* C13: of an archive that decodes to several blocks the loader returns
\* the first certificate block and the first private-key block, in PKCS#1
\* or PKCS#8 encoding; later blocks never replace the first ones.
C13_FirstCertificateFirstKey ==
    (Ran("extractPfxCertificate") /\ failed # "extractPfxCertificate")
       => /\ SelectSeq(BlocksOfCall, IsCertificateBlock) # << >>
          /\ SelectSeq(BlocksOfCall, IsKeyBlock) # << >>
          /\ cert = ParseCertificate(
                      SelectSeq(BlocksOfCall, IsCertificateBlock)[1].Bytes)
          /\ privateKey = KeyOfBlock(SelectSeq(BlocksOfCall, IsKeyBlock)[1])

\* C14: the XMLContent of every SignatureResult SignXML returns, on
\* success and on failure, is the XML content string the caller supplied.
C14_OriginalContentKept ==
    pc = "returned" => resultado.XMLContent = XMLOf(doc)

\* SignXML run from the locals c to its return with nothing in between
RECURSIVE RunAlone(_, _, _)
RunAlone(c, t, random) ==
    IF c.pc \in {"idle", "returned"} THEN c
    ELSE RunAlone(Step(c, t, random), t, random)

\* the locals of the first call, as a record
FirstLocals ==
    [pc |-> pc, doc |-> doc, dados |-> dados, now |-> now,
     resultado |-> resultado, err |-> err, privateKey |-> privateKey,
     cert |-> cert, xmlPreparado |-> xmlPreparado, elementoID |-> elementoID,
     hash |-> hash, signedInfo |-> signedInfo, assinatura |-> assinatura,
     signature |-> signature, failed |-> failed]

\* c is what its call returns when it runs alone with the same inputs,
\* the same readings of the clock and some outcome of the random source
AsAlone(c) ==
    \E random \in 0..MaxRandom :
       c = RunAlone(Entered(c.doc, c.dados.Certificate, c.dados.ElementID,
                            c.dados.TagSignature, c.resultado.Date),
                    c.now, random)

\* C15: under any interleaving of two concurrent SignXML calls the result
\* of each call is the result of that call run alone with the same inputs.
C15_Stateless ==
    /\ pc = "returned" => AsAlone(FirstLocals)
    /\ other.pc = "returned" => AsAlone(other)

\* C15 happens: the first call started while the other call was running
\* and returned, signed, before the other call had finished
C15_Witness ==
    /\ pc = "returned"
    /\ resultado.Success
    /\ other.pc = "signSignedInfo"
    /\ other.resultado.Date < resultado.Date

\* the content the caller passed is empty or only white space
BlankContent == XMLOf(doc) = "" \/ IsBlank(XMLOf(doc))

BlankPassword ==
    dados.Certificate.Password = "" \/ IsBlank(dados.Certificate.Password)

\* C16: a request whose XML content is empty or only white space, whose
\* certificate bytes are empty, or whose passphrase is empty or only white
\* space is rejected with the input-validation error of the first of
\* these checks that fails, before the archive is decoded.
C16_ValidationFirst ==
    (Ran("validateInput")
     /\ (BlankContent \/ dados.Certificate.File = "" \/ BlankPassword))
       => /\ pc = "returned"
          /\ failed = "validateInput"
          /\ stages = << "validateInput" >>
          /\ privateKey = NilKey
          /\ cert = NilCert
          /\ ~resultado.Success
          /\ resultado.Error = err
          /\ err = (IF BlankContent THEN "XML content cannot be empty"
                    ELSE IF dados.Certificate.File = ""
                    THEN "certificate file cannot be empty"
                    ELSE "certificate password cannot be empty")

\* C16 happens: a request with content, without certificate bytes and
\* with a blank passphrase was rejected
C16_Witness ==
    /\ pc = "returned"
    /\ failed = "validateInput"
    /\ ~BlankContent
    /\ dados.Certificate.File = ""
    /\ BlankPassword

\* the stages of SignXML in the order of lines 58-126
StageOrder ==
    << "validateInput", "extractPfxCertificate", "validateCertificate",
       "prepareXMLForSigning", "calculateElementHash", "createSignedInfo",
       "canonicalizeXML", "signSignedInfo", "createElementSignature",
       "insertSignatureInXML" >>

\* the stage would fail on the inputs of this call, whatever ran before it
Defect(stage) ==
    CASE stage = "validateInput" -> validateInput(dados) # Nil
      [] stage = "extractPfxCertificate" ->
           extractPfxCertificate(dados.Certificate).err # Nil
      [] stage = "validateCertificate" ->
           /\ now # -1
           /\ validateCertificate(
                  extractPfxCertificate(dados.Certificate).certificate, now) # Nil
      [] stage = "prepareXMLForSigning" ->
           prepareXMLForSigning(dados.XMLContent, dados.ElementID).err # Nil
      [] stage = "calculateElementHash" ->
           /\ prepareXMLForSigning(dados.XMLContent, dados.ElementID).err = Nil
           /\ calculateElementHash(
                  dados.XMLContent,
                  prepareXMLForSigning(dados.XMLContent, dados.ElementID).id).err
                # Nil
      [] stage = "signSignedInfo" ->
           extractPfxCertificate(dados.Certificate).privateKey.alg # "rsa"
      [] stage = "insertSignatureInXML" ->
           insertSignatureInXML(dados.XMLContent, "S", dados.TagSignature).err # Nil
      [] OTHER -> FALSE

\* C17: the stages run at most once each and in the order loader,
\* validator, locator, transforms, digest, SignedInfo, signer, Signature
\* element, injector; a stage runs only if every earlier stage succeeded,
\* and the error reported is that of the earliest stage that fails.
C17_StageOrder ==
    /\ Len(stages) <= Len(StageOrder)
    /\ stages = SubSeq(StageOrder, 1, Len(stages))
    /\ \A i \in 1..(Len(stages) - 1) : ~Defect(stages[i])
    /\ failed # "" => /\ stages[Len(stages)] = failed
                      /\ Defect(failed)
    /\ (pc = "returned" /\ failed = "")
          => /\ stages = StageOrder
             /\ \A i \in 1..Len(StageOrder) : ~Defect(StageOrder[i])

\* C17 happens: a request with two defects, no Id in the document and a
\* key that is not RSA, returned the error of the earlier stage
C17_Witness ==
    /\ pc = "returned"
    /\ failed = "prepareXMLForSigning"
    /\ privateKey.alg = "ecdsa"

\* the tokens GetSignToken issues under the Authenticator's key: HS256,
\* signed with the secret, with an expiry
IssuedTokens ==
    {GetSignToken(u, e, secretKey) : u \in {"7", "aes7", "hyb7"}, e \in 0..(MaxTime + 1)}

\* what the request presents: the session cookie where the middleware
\* reads cookies and there is one, else the Authorization header
Presented ==
    IF http.mw = "AuthMiddlewareWithCrypt"
       /\ \E i \in 1..Len(http.cookie) : http.cookie[i].Name = "CIMSSESSIONTOKEN"
    THEN LET i == CHOOSE i \in 1..Len(http.cookie) :
                     /\ http.cookie[i].Name = "CIMSSESSIONTOKEN"
                     /\ \A j \in 1..(i - 1) : http.cookie[j].Name # "CIMSSESSIONTOKEN"
         IN  http.cookie[i].Value
    ELSE http.Authorization

\* the credential is a token signed with the secret, with an expiry, alone
\* or after a scheme word
PresentsIssuedToken ==
    \E token \in IssuedTokens :
        \/ Presented = token
        \/ /\ Len(Presented) > Len(token)
           /\ SubSeq(Presented, Len(Presented) - Len(token) + 1, Len(Presented)) = token

\* C18: the wrapped handler is invoked only for a request that presents a
\* token that verifies under the secret key and carries an expiry; every
\* other request is answered 401 and the handler is not invoked.
C18_OnlySignedTokens ==
    http.pc = "responded"
       => /\ http.invoked => PresentsIssuedToken
          /\ ~PresentsIssuedToken => (http.status = 401 /\ ~http.invoked)
          /\ http.invoked <=> http.status # 401

\* document d holds the opening tag of a Body element with this id and no
\* closing tag of Body after it
Unclosed(d, id) ==
    /\ \E i \in 1..Len(Texts(Documents[d])) :
          HasAt(Texts(Documents[d])[i], "<Body Id=\"" \o id \o "\">", 1)
    /\ ~Contains(XMLOf(d), "</Body>")

\* the call failed where the element is located: nothing was digested and
\* nothing was inserted
LocationFailed ==
    /\ pc = "returned"
    /\ failed = "calculateElementHash"
    /\ ~resultado.Success
    /\ resultado.XMLSigned = ""
    /\ hash = ""
    /\ ~Ran("insertSignatureInXML")

\* C19: with an element id given, the call fails with the
\* element-not-found error when no element has that Id/id, and with the
\* incomplete-element error when the opening tag with the id has no closing
\* tag after it; no digest is computed and nothing is inserted.
C19_LocationErrors ==
    (dados.ElementID # "" /\ Ran("calculateElementHash"))
       => /\ (WellFormed(doc) /\ ElementsWithId(doc, dados.ElementID) = {})
                => /\ LocationFailed
                   /\ Contains(resultado.Error,
                               "element with ID '" \o dados.ElementID
                                 \o "' not found")
          /\ Unclosed(doc, dados.ElementID)
                => /\ LocationFailed
                   /\ Contains(resultado.Error,
                               "unable to extract complete content of element 'Body'")

\* the default namespace element n declares, or the one it inherits
DefaultNamespace(n, inherited) ==
    IF \E j \in 1..Len(n.attrs) : n.attrs[j].name = "xmlns"
    THEN n.attrs[CHOOSE j \in 1..Len(n.attrs) : n.attrs[j].name = "xmlns"].value
    ELSE inherited

\* the first element, in document order, whose Id/id is id, with the
\* default namespace its ancestors put it in ("": none)
RECURSIVE Target(_, _, _)
Target(kids, id, inherited) ==
    IF kids = << >> THEN [found |-> FALSE, node |-> Text(""), namespace |-> ""]
    ELSE IF Head(kids).tag = "" THEN Target(Tail(kids), id, inherited)
    ELSE IF CarriesId(Head(kids)) /\ IdOf(Head(kids)) = id
    THEN [found |-> TRUE, node |-> Head(kids), namespace |-> inherited]
    ELSE LET inside == Target(Head(kids).kids, id,
                              DefaultNamespace(Head(kids), inherited))
         IN  IF inside.found THEN inside
             ELSE Target(Tail(kids), id, inherited)

\* the subtree of n declares a default namespace somewhere
SubtreeDeclares(n) ==
    \E k \in 1..Len(Preorder(<< n >>)) :
       \E j \in 1..Len(Preorder(<< n >>)[k].attrs) :
          Preorder(<< n >>)[k].attrs[j].name = "xmlns"

\* the text that is to be digested for target t: the element, with the
\* namespace of its ancestors declared on it when its subtree declares none
ToDigest(t) ==
    IF ~SubtreeDeclares(t.node) /\ t.namespace # ""
    THEN WithNamespace(t.node, t.namespace)
    ELSE t.node

\* C20: the text that is digested has a default namespace declaration
\* added to the opening tag of the target element exactly when the
\* extracted subtree declares none and the enclosing document defines one
\* for the element; the value is the namespace the document defines for
\* that element, not one declared only on an unrelated element; the
\* document that is returned does not get the declaration.
C20_NamespaceInjection ==
    (/\ Ran("calculateElementHash")
     /\ failed # "calculateElementHash"
     /\ WellFormed(doc)
     /\ Target(Documents[doc], elementoID, "").found
     /\ elemento \in Renderings(Target(Documents[doc], elementoID, "").node, doc))
       => LET t == Target(Documents[doc], elementoID, "")
          IN  /\ elemento \in {Serialize(ToDigest(t)), cleanXML(Serialize(ToDigest(t)))}
              /\ xmlPreparado = dados.XMLContent
              /\ (resultado.Success /\ ~SubtreeDeclares(t.node))
                    => ~Contains(resultado.XMLSigned, "<" \o t.node.tag \o " xmlns=")

\* position i of s is white space in a run that starts right after a ">"
\* and ends right before a "<"
InterTag(s, i) ==
    /\ At(s, i) \in Space
    /\ \E a \in 1..(i - 1), b \in (i + 1)..Len(s) :
          /\ At(s, a) = ">"
          /\ At(s, b) = "<"
          /\ \A j \in (a + 1)..(b - 1) : At(s, j) \in Space

\* s without its white space between tags, every other character in order
RECURSIVE SqueezeFrom(_, _)
SqueezeFrom(s, i) ==
    IF i > Len(s) THEN ""
    ELSE (IF InterTag(s, i) THEN "" ELSE At(s, i)) \o SqueezeFrom(s, i + 1)

Squeeze(s) == SqueezeFrom(s, 1)

LastOp == norm.ops[Len(norm.ops)]

\* C21: canonicalizeXML deletes the runs of white space between a ">" and
\* the next "<" and nothing else, so its output has no such run; the
\* element is transformed by signature removal first and canonicalization
\* second.
C21_Canonicalization ==
    Len(norm.ops) > 1
       => /\ LastOp = "canonicalizeXML"
                => /\ norm.out = Squeeze(norm.prev)
                   /\ \A i \in 1..Len(norm.out) : ~InterTag(norm.out, i)
          /\ LastOp = "applyTransformations"
                => norm.out = Squeeze(removeSignatures(norm.prev))

\* C21 happens: a Signature block was removed from a text and the white
\* space it left before a tag was kept, which the other order would delete
C21_Witness ==
    /\ Len(norm.ops) > 1
    /\ LastOp = "applyTransformations"
    /\ Contains(norm.prev, "<Signature>")
    /\ norm.out # removeSignatures(Squeeze(norm.prev))

\* s has no white space between tags, no tab and no carriage return
Normalized(s) ==
    /\ \A i \in 1..Len(s) : ~InterTag(s, i)
    /\ ~Contains(s, "\t")
    /\ ~Contains(s, "\r")

\* C22: the input is normalized before validateInput and before every
\* stage: the content that is validated, the text the locator, the digest
\* and the injector work on and the text XMLSigned is built from have no
\* white space between tags, no tab and no carriage return.
C22_NormalizedBeforeStages ==
    pc # "idle"
       => /\ Normalized(dados.XMLContent)
          /\ Normalized(xmlPreparado)
          /\ Normalized(elemento)
          /\ xmlPreparado \in {"", dados.XMLContent}
          /\ (elemento # "" /\ ~Contains(elemento, "xmlns="))
                => Contains(dados.XMLContent, elemento)
          /\ resultado.Success
                => \/ resultado.XMLSigned = xmlPreparado
                   \/ \E i \in 0..Len(xmlPreparado) :
                         resultado.XMLSigned =
                            SubSeq(xmlPreparado, 1, i) \o signature \o "\n"
                              \o SubSeq(xmlPreparado, i + 1, Len(xmlPreparado))

\* C22 happens: a document written with indentation and a tab was signed
C22_Witness ==
    /\ pc = "returned"
    /\ resultado.Success
    /\ ~Normalized(XMLOf(doc))
    /\ Contains(XMLOf(doc), "\t")
    /\ resultado.XMLSigned # xmlPreparado

\* C23: on success XMLSigned is the normalized input with one insertion,
\* the Signature element that was built and the newline after it; no
\* Signature block already in the document is removed or altered, so the
\* document has one Signature block more.
C23_ExactlyOneInsertion ==
    (pc = "returned" /\ resultado.Success)
       => /\ \E i \in 0..Len(dados.XMLContent) :
                resultado.XMLSigned =
                   SubSeq(dados.XMLContent, 1, i) \o signature \o "\n"
                     \o SubSeq(dados.XMLContent, i + 1, Len(dados.XMLContent))
          /\ SignatureBlocks(resultado.XMLSigned)
               = SignatureBlocks(dados.XMLContent) + 1

\* the blocks the archive given to the entry point decodes to
BlocksOfBundle == ToPEM(bundle.File, bundle.Password).blocks

\* the archive decodes and holds a key and a certificate
Loadable ==
    /\ ToPEM(bundle.File, bundle.Password).err = Nil
    /\ SelectSeq(BlocksOfBundle, IsKeyBlock) # << >>
    /\ SelectSeq(BlocksOfBundle, IsCertificateBlock) # << >>

CertificateOfBundle ==
    ParseCertificate(SelectSeq(BlocksOfBundle, IsCertificateBlock)[1].Bytes)

Readable == bundle.path = "" \/ bundle.path \in {"/certs/leaf.pfx", "/certs/nokey.pfx"}

\* C24: the readers return a bundle only for an archive that decodes,
\* holds a key and a certificate, and whose certificate is in its validity
\* window when it is loaded; GetCertificateInfo checks no validity and
\* returns the metadata of an expired or not yet valid certificate too;
\* a SignXML with an accepted bundle still fails on a blank passphrase and
\* on a certificate that is no longer valid when it signs.
C24_CertificateAcceptance ==
    /\ bundle.entry \in {"ReadPFXCertificate", "ReadPFXCertificateFromBytes"}
          => /\ bundle.err = Nil
                   <=> /\ Readable
                       /\ Loadable
                       /\ CertificateOfBundle.NotBefore <= bundle.at
                       /\ bundle.at <= CertificateOfBundle.NotAfter
             /\ bundle.A1 = IF bundle.err = Nil
                            THEN [File |-> bundle.File, Password |-> bundle.Password]
                            ELSE NoA1
    /\ bundle.entry = "GetCertificateInfo"
          => /\ bundle.err = Nil <=> Loadable
             /\ bundle.err = Nil => bundle.info = CertificateOfBundle
    /\ (pc = "returned" /\ bundle.entry # "")
          => /\ BlankPassword
                   => ~resultado.Success /\ failed = "validateInput"
             /\ (now # -1 /\ (now < cert.NotBefore \/ now > cert.NotAfter))
                   => ~resultado.Success /\ failed = "validateCertificate"

\* C24 happens: a bundle accepted when it was loaded is refused by SignXML
\* because the certificate expired in between
C24_Witness ==
    /\ bundle.entry = "ReadPFXCertificateFromBytes"
    /\ bundle.err = Nil
    /\ pc = "returned"
    /\ failed = "validateCertificate"
    /\ now > bundle.at

\* C25: canonicalizeXML and cleanXML are idempotent, and canonicalizeXML
\* leaves what cleanXML returned as it is: the second of two applications
\* in a row returns its argument.
C25_Idempotent ==
    Len(norm.ops) = 3
       => /\ (norm.ops[2] = "canonicalizeXML" /\ norm.ops[3] = "canonicalizeXML")
                => norm.out = norm.prev
          /\ (norm.ops[2] = "cleanXML" /\ norm.ops[3] = "cleanXML")
                => norm.out = norm.prev
          /\ (norm.ops[2] = "cleanXML" /\ norm.ops[3] = "canonicalizeXML")
                => norm.out = norm.prev

\* C25 happens: cleanXML changed a text with white space between two tags
\* and more than that white space, and canonicalizeXML was applied to what
\* it returned
C25_Witness ==
    /\ Len(norm.ops) = 3
    /\ norm.ops[2] = "cleanXML"
    /\ norm.ops[3] = "canonicalizeXML"
    /\ \E i \in 1..Len(norm.in) : InterTag(norm.in, i)
    /\ norm.prev # canonicalizeXML(norm.in)
    /\ norm.out = norm.prev

\* the goroutine is inside the transaction its WithTransaction began
InTransaction(i) == uow.g[i].pc \in {"fn", "Exec", "Commit", "Rollback"}

\* C26: WithTransaction ends the transaction it began with exactly one
\* terminal operation, Commit when fn returned nil and Rollback when fn
\* returned an error, and it returns fn's error whenever fn returned one,
\* also when the rollback failed.
C26_OneTerminalOperation ==
    \A i \in Goroutines :
       (uow.g[i].call = "WithTransaction" /\ uow.g[i].began # 0)
          => /\ InTransaction(i) => uow.txs[uow.g[i].began].ops = << >>
             /\ uow.g[i].pc = "returned"
                   => /\ uow.txs[uow.g[i].began].ops =
                            IF uow.g[i].fnErr = Nil THEN << "Commit" >>
                            ELSE << "Rollback" >>
                      /\ uow.g[i].fnErr # Nil
                            => Contains(uow.g[i].ret, uow.g[i].fnErr)

\* C27: when WithTransaction returns after Commit or Rollback, whatever
\* they returned, the UnitOfWork holds no transaction and no repository,
\* and Begin refuses a call only while another goroutine is inside its
\* transaction.
C27_NoTransactionAfterReturn ==
    [][\A i \in Goroutines :
          /\ (uow.g[i].pc \in {"Commit", "Rollback"} /\ uow'.g[i].pc = "returned")
                => /\ uow'.tx = 0
                   /\ uow'.repositories = {}
          /\ (/\ uow.g[i].pc \in {"idle", "returned"}
              /\ uow'.g[i].pc = "returned"
              /\ uow'.g[i].ret = "transaction already in progress")
                => \E j \in Goroutines \ {i} : InTransaction(j)]_vars

\* C28: a statement of a goroutine that began no transaction never runs in
\* a transaction, no transaction runs a statement of a goroutine that did
\* not begin it, and no WithTransaction is refused because of a transaction
\* in progress.
C28_Isolation ==
    /\ \A i \in Goroutines :
          /\ uow.g[i].call = "Exec" => uow.g[i].ran \in {-1, 0}
          /\ (uow.g[i].call = "WithTransaction" /\ uow.g[i].pc = "returned")
                => uow.g[i].ret # "transaction already in progress"
    /\ \A t \in 1..Len(uow.txs) : uow.txs[t].stmts \subseteq {uow.txs[t].owner}

\* C29: a statement issued through a method of the wrapper that takes a
\* context runs in the transaction its context carries, and on the database
\* when the context carries none; a statement issued inside fn through a
\* method that takes no context runs in the transaction of fn.
C29_WrapperJoinsTransaction ==
    \A k \in 1..Len(pool.stmts) :
       /\ pool.stmts[k].method \in ContextMethods
             => pool.stmts[k].ran = pool.stmts[k].carried
       /\ (pool.stmts[k].method \in ContextLess /\ pool.stmts[k].inside # 0)
             => pool.stmts[k].ran = pool.stmts[k].inside

\* C30: GetUoW never returns nil, and every GetUoW called after a
\* SetGlobalDB with a database returns the one UnitOfWork of the package,
\* which is bound to a database.
C30_GetUoW ==
    \A i \in Goroutines :
       globals.g[i].pc = "returned"
          => /\ globals.g[i].ret # 0
             /\ globals.g[i].after
                   => /\ globals.g[i].ret = globals.globalUoW
                      /\ Len(globals.uows) = 1
                      /\ globals.uows[1] # 0

====
